---- MODULE Spec2Model ----
(***************************************************************************)
(* SolSense: the shelf packer (core/packing_solver.py), the energy         *)
(* estimator (core/energy_estimator.py) and Horn's slope/aspect kernel     *)
(* (core/slope_calculator.py) as state machines.                           *)
(*                                                                         *)
(* Numbers.  The program computes with Python floats: binary floating      *)
(* point, every operation rounded to nearest, ties to even.  The model     *)
(* keeps that arithmetic with a narrower format: a float is an integer     *)
(* count of 2^-FracBits, and a representable count has at most MantBits    *)
(* significant bits.  Sums and products are exact integers that are then   *)
(* rounded, so a running sum drifts from the exact one as it does in the   *)
(* program.                                                                *)
(***************************************************************************)
EXTENDS Integers, Sequences, FiniteSets, TLC

\* ------------------------------------------------------------- bounds
\* Width of the float format of the model (binary64 has 53 and 1074).
MantBits == 10
FracBits == 8
\* Stands for APP_SETTINGS['max_packing_iterations'] = 1_000_000
\* (config/settings.py:39), scaled so that a run can reach it.
max_packing_iterations == 8
\* Largest num_objects_to_pack a caller passes.
MaxRequested == 4
\* Largest num_panels the estimator is called with.
MaxPanels == 4
\* Largest elevation of a grid cell, in steps of 2^-19 m.
MaxElev == 1
\* Most cells of a grid passed to create_slope_visualization.
MaxVisCells == 3

\* The entries the lru_cache of _cached_nasa_call holds at most (32 in the
\* source, energy_estimator.py:16).
lru_maxsize == 2

\* ------------------------------------------------------ float arithmetic
One == 2^FracBits

RECURSIVE RoundExponent(_, _, _)
\* The least e >= 0 with a/(b*2^e) below 2^MantBits: the binade of a/b.
RoundExponent(a, b, e) ==
    IF a \div (b * 2^e) < 2^MantBits THEN e ELSE RoundExponent(a, b, e + 1)

\* a/b (a >= 0, b > 0) rounded to the nearest representable count, ties to even.
RoundMagnitude(a, b) ==
    LET e == RoundExponent(a, b, 0)
        d == b * 2^e
        q == a \div d
        r == a % d
        up == (2 * r > d) \/ (2 * r = d /\ q % 2 = 1)
    IN  (IF up THEN q + 1 ELSE q) * 2^e

FloatRound(a, b) == IF a >= 0 THEN RoundMagnitude(a, b) ELSE 0 - RoundMagnitude(0 - a, b)

\* float("n/100"): a decimal with two places, as the entry fields and the
\* literals of the source give them.
FloatOfHundredths(n) == FloatRound(n * One, 100)
\* float(n) of an int.
FloatOfInt(n) == FloatRound(n * One, 1)
\* x + y, x * y, x / y of two floats.
FloatAdd(x, y) == FloatRound(x + y, 1)
RECURSIVE TrailingZeros(_)
TrailingZeros(n) == IF n = 0 \/ n % 2 = 1 THEN 0 ELSE 1 + TrailingZeros(n \div 2)
Abs(n) == IF n >= 0 THEN n ELSE 0 - n
\* The product of the two significands is exact; the result is rounded once.
FloatMul(x, y) ==
    LET tx == TrailingZeros(Abs(x))
        ty == TrailingZeros(Abs(y))
        m == (x \div 2^tx) * (y \div 2^ty)
        k == tx + ty - FracBits
    IN  IF k >= 0 THEN FloatRound(m * 2^k, 1) ELSE FloatRound(m, 2^(0 - k))
FloatDiv(x, y) ==
    IF y > 0 THEN FloatRound(x * One, y) ELSE FloatRound((0 - x) * One, 0 - y)

\* ------------------------------------------------------------- packer
\* None, and a present value, of an optional argument.
None == << >>
Some(v) == << v >>
IsNone(o) == o = None
Value(o) == o[1]

\* horizontal_gap_m = 0.02 and row_gap_m = 1.5, in hundredths.
horizontal_gap_hundredths == 2
row_gap_hundredths == 150
horizontal_gap_m == FloatOfHundredths(horizontal_gap_hundredths)
row_gap_m == FloatOfHundredths(row_gap_hundredths)

\* The arguments the calls of the model pass, in hundredths of a metre.
LandWidths == {100, 169, 338, 588, 700, 1000}
LandHeights == {400, 500, 800, 1600}
PanelWidths == {-100, -2, 96, 98, 167}
PanelHeights == {-150, 100, 250}
Requested == {None} \cup {Some(k) : k \in 0..MaxRequested}

VARIABLES
    pc,                  \* where next_fit_shelf_packing stands
    frame,               \* its arguments and locals
    result,              \* the list it returned
    warned,              \* whether the max-iterations warning was printed
    last_execution_time  \* PackingSolver.last_execution_time: None or set

packVars == << pc, frame, result, warned, last_execution_time >>

VARIABLES
    energy_pc,    \* "idle", or "returned" after calculate_energy_production
    energy_args,  \* the arguments of that call
    energy_data   \* the dict it returned

energyVars == << energy_pc, energy_args, energy_data >>

VARIABLES
    slope_pc,    \* "idle", or "returned" after calculate_slope_aspect_horn
    dem,         \* the elevation grid it was called with
    slope_deg,   \* the slope grid it returned
    aspect_deg   \* the aspect grid it returned

slopeVars == << slope_pc, dem, slope_deg, aspect_deg >>

VARIABLES
    direction_pc,       \* "idle", or "returned" after get_aspect_direction
    direction_degrees,  \* the argument of that call
    direction_label     \* the string it returned

directionVars == << direction_pc, direction_degrees, direction_label >>

VARIABLES
    vis_pc,      \* "idle", or "returned" after create_slope_visualization
    vis_slope,   \* the slope grid it was called with
    vis_aspect,  \* the aspect grid it was called with
    vis_nodata,  \* the nodata_value it was called with
    vis_gray,    \* its local img_gray at the return (None if not reached)
    vis_image    \* the image it returned, or None

visVars == << vis_pc, vis_slope, vis_aspect, vis_nodata, vis_gray, vis_image >>

VARIABLES
    data_manager,  \* the DataManager's fields
    nasa_cache,    \* the lru_cache of _cached_nasa_call: reading per place
    info_bar,      \* the texts of the info bar
    controls,      \* the result labels of the control panel
    app_event      \* what the handler that is returning did, or Idle

appVars == << data_manager, nasa_cache, info_bar, controls, app_event >>

VARIABLES
    calls,   \* per thread: where its call of next_fit_shelf_packing stands
    frames,  \* the locals of the calls
    solver   \* the fields of the one PackingSolver the threads share

concVars == << calls, frames, solver >>

VARIABLES
    horn_call  \* a call of calculate_slope_aspect_horn with its pixel size

pixelVars == << horn_call >>

VARIABLES
    lru,         \* the entries of the lru_cache of _cached_nasa_call, oldest first
    fetch_call   \* the last call of fetch_solar_irradiance and how it ended

fetchVars == << lru, fetch_call >>

vars ==
    << packVars, energyVars, slopeVars, directionVars, visVars, appVars, concVars,
       pixelVars, fetchVars >>

\* The state outside each component: a call of one leaves the others alone.
packRest == << energyVars, slopeVars, directionVars, visVars, appVars, concVars, pixelVars, fetchVars >>
energyRest == << packVars, slopeVars, directionVars, visVars, appVars, concVars, pixelVars, fetchVars >>
slopeRest == << packVars, energyVars, directionVars, visVars, appVars, concVars, pixelVars, fetchVars >>
directionRest == << packVars, energyVars, slopeVars, visVars, appVars, concVars, pixelVars, fetchVars >>
appRest == << packVars, energyVars, slopeVars, directionVars, visVars, concVars, pixelVars, fetchVars >>
concRest == << packVars, energyVars, slopeVars, directionVars, visVars, appVars, pixelVars, fetchVars >>
pixelRest == << packVars, energyVars, slopeVars, directionVars, visVars, appVars, concVars, fetchVars >>
fetchRest == << packVars, energyVars, slopeVars, directionVars, visVars, appVars, concVars, pixelVars >>
visRest == << packVars, energyVars, slopeVars, directionVars, appVars, concVars, pixelVars, fetchVars >>

NoFrame == [land_width_m |-> 0, land_height_m |-> 0, obj_width_m |-> 0,
            obj_height_m |-> 0, num_objects_to_pack |-> None,
            packed_objects_coords |-> << >>, current_x_m |-> 0,
            shelf_bottom_y_m |-> 0, shelf_effective_height_m |-> 0,
            objects_placed |-> 0, iter_count |-> 0, broke |-> FALSE]

\* Lines 37-45: the locals before the loop.
Enter(land_width_m, land_height_m, obj_width_m, obj_height_m, num) ==
    LET ew == FloatAdd(obj_width_m, horizontal_gap_m)
        eh == FloatAdd(obj_height_m, row_gap_m)
    IN  [land_width_m |-> land_width_m, land_height_m |-> land_height_m,
         obj_width_m |-> ew, obj_height_m |-> eh,
         num_objects_to_pack |-> num,
         packed_objects_coords |-> << >>, current_x_m |-> 0,
         shelf_bottom_y_m |-> 0, shelf_effective_height_m |-> eh,
         objects_placed |-> 0, iter_count |-> 0, broke |-> FALSE]

\* Lines 48-51 negated: the inputs pass the validation.
InputsValidStrict(f) ==
    /\ ~(f.obj_width_m <= 0 \/ f.obj_height_m <= 0)
    /\ ~(f.obj_width_m >= f.land_width_m \/ f.obj_height_m >= f.land_height_m)

InputsValid(f) ==
    /\ ~(f.obj_width_m <= 0 \/ f.obj_height_m <= 0)
    /\ ~(f.obj_width_m > f.land_width_m \/ f.obj_height_m > f.land_height_m)

\* Line 55: the loop's condition.
LoopCondUnbounded(f) == TRUE

LoopCond(f) == f.iter_count < max_packing_iterations

\* Line 59.
ReachedRequestedOffByOne(f) ==
    ~IsNone(f.num_objects_to_pack) /\ f.objects_placed > Value(f.num_objects_to_pack)

ReachedRequested(f) ==
    ~IsNone(f.num_objects_to_pack) /\ f.objects_placed >= Value(f.num_objects_to_pack)

\* Lines 63 and 82.
FitsVertically(f) ==
    FloatAdd(f.shelf_bottom_y_m, f.shelf_effective_height_m) <= f.land_height_m

\* Lines 65 and 83.
FitsHorizontallyNoWidth(f) == f.current_x_m <= f.land_width_m

FitsHorizontally(f) == FloatAdd(f.current_x_m, f.obj_width_m) <= f.land_width_m

\* Lines 67-74 and 84-91: record the rectangle and move right.
Place(f) ==
    [f EXCEPT !.packed_objects_coords =
                  Append(@, [x |-> f.current_x_m, y |-> f.shelf_bottom_y_m,
                             w |-> f.obj_width_m, h |-> f.obj_height_m]),
              !.current_x_m = FloatAdd(@, f.obj_width_m),
              !.objects_placed = @ + 1]

\* Lines 78-79: start the next shelf.
NextShelf(f) ==
    [f EXCEPT !.current_x_m = 0,
              !.shelf_bottom_y_m = FloatAdd(@, f.shelf_effective_height_m)]

Break(f) == [f EXCEPT !.broke = TRUE]

\* Lines 56-98: one pass through the loop's body.
LoopBody(f0) ==
    LET f == [f0 EXCEPT !.iter_count = @ + 1]
    IN  IF ReachedRequested(f) THEN Break(f)
        ELSE IF FitsVertically(f)
             THEN IF FitsHorizontally(f) THEN Place(f)
                  ELSE LET g == NextShelf(f)
                       IN  IF FitsVertically(g)
                           THEN IF FitsHorizontally(g) THEN Place(g) ELSE Break(g)
                           ELSE Break(g)
             ELSE Break(f)

RECURSIVE RunLoop(_)
\* Lines 55-98: the loop run to its end.
RunLoop(f) ==
    IF ~LoopCond(f) THEN f
    ELSE LET g == LoopBody(f) IN IF g.broke THEN g ELSE RunLoop(g)

\* Lines 14-120: the list a call returns.
next_fit_shelf_packing(land_width_m, land_height_m, obj_width_m, obj_height_m, num) ==
    LET f == Enter(land_width_m, land_height_m, obj_width_m, obj_height_m, num)
    IN  IF InputsValid(f) THEN RunLoop(f).packed_objects_coords ELSE << >>

\* PackingSolver.__init__, lines 9-12.
PackInit ==
    /\ pc = "idle"
    /\ frame = NoFrame
    /\ result = << >>
    /\ warned = FALSE
    /\ last_execution_time = "None"

\* A call up to the loop (lines 14-53); it returns [] at line 49 or 51 when the
\* inputs fail the validation.
Call ==
    /\ pc = "idle"
    /\ \E W \in LandWidths, H \in LandHeights, w \in PanelWidths,
          h \in PanelHeights, num \in Requested :
          LET f == Enter(FloatOfHundredths(W), FloatOfHundredths(H),
                         FloatOfHundredths(w), FloatOfHundredths(h), num)
          IN  /\ frame' = f
              /\ pc' = IF InputsValid(f) THEN "loop" ELSE "returned"
    /\ result' = << >>
    /\ warned' = FALSE
    /\ UNCHANGED << last_execution_time, packRest >>

\* One iteration of the while loop (lines 55-98).
Iterate ==
    /\ pc = "loop"
    /\ LoopCond(frame)
    /\ frame' = LoopBody(frame)
    /\ pc' = IF frame'.broke THEN "exit" ELSE "loop"
    /\ UNCHANGED << result, warned, last_execution_time, packRest >>

\* The loop's condition fails (line 55): the iteration bound is reached.
LoopEnd ==
    /\ pc = "loop"
    /\ ~LoopCond(frame)
    /\ pc' = "exit"
    /\ UNCHANGED << frame, result, warned, last_execution_time, packRest >>

\* Lines 100-120: the warning, the performance fields, the return.
Return ==
    /\ pc = "exit"
    /\ warned' = (frame.iter_count >= max_packing_iterations)
    /\ last_execution_time' = "set"
    /\ result' = frame.packed_objects_coords
    /\ pc' = "returned"
    /\ UNCHANGED << frame, packRest >>

\* The caller is done with the returned list; the call's frame is gone.
Discard ==
    /\ pc = "returned"
    /\ pc' = "idle"
    /\ frame' = NoFrame
    /\ result' = << >>
    /\ warned' = FALSE
    /\ UNCHANGED << last_execution_time, packRest >>

\* ---------------------------------------------------------- estimator
\* total_annual_energy_kwh = total_daily_energy_kwh * 365 (line 78).
days_per_year == 365

\* The arguments the calls of the model pass.  The panel area is the product
\* the caller forms (app.py:379), the efficiency the entry's percent over 100
\* (app.py:395); -1.0 is an irradiance outside the documented domain.
PanelAreas ==
    {FloatMul(FloatOfHundredths(wh[1]), FloatOfHundredths(wh[2])) :
        wh \in {<<165, 100>>, <<100, 100>>, <<167, 250>>}}
Efficiencies == {FloatDiv(FloatOfInt(pct), FloatOfInt(100)) : pct \in {18, 50, 100}}
PerformanceRatios == {FloatOfHundredths(80), FloatOfHundredths(100)}
Irradiances == {FloatOfHundredths(i) : i \in {-100, 0, 452, 525}}

NoEnergyArgs ==
    [num_panels |-> 0, panel_area_m2 |-> 0, panel_efficiency |-> 0,
     performance_ratio |-> 0, avg_daily_irradiance_kwh_m2 |-> 0]
NoEnergyData ==
    [daily_energy_kwh |-> 0, annual_energy_kwh |-> 0, total_panel_area_m2 |-> 0]

\* Lines 69-74.
energy_daily_per_panel_kwh(area, eff, ratio, irr) ==
    FloatMul(FloatMul(FloatMul(irr, area), eff), ratio)

\* Line 77.
total_daily_energy_kwh(per_panel, n) == FloatMul(per_panel, FloatOfInt(n))

\* Line 78.
total_annual_energy_kwh_leap(daily) == FloatMul(daily, FloatOfInt(days_per_year + 1))

total_annual_energy_kwh(daily) == FloatMul(daily, FloatOfInt(days_per_year))

\* Line 79.
total_panel_area_m2(n, area) == FloatMul(FloatOfInt(n), area)

\* Lines 47-85.
calculate_energy_production(n, area, eff, ratio, irr) ==
    IF n = 0
    THEN [daily_energy_kwh |-> 0, annual_energy_kwh |-> 0, total_panel_area_m2 |-> 0]
    ELSE LET daily == total_daily_energy_kwh(
                          energy_daily_per_panel_kwh(area, eff, ratio, irr), n)
         IN  [daily_energy_kwh |-> daily,
              annual_energy_kwh |-> total_annual_energy_kwh(daily),
              total_panel_area_m2 |-> total_panel_area_m2(n, area)]

\* EnergyEstimator.__init__ (lines 11-14): no call made yet.
EnergyInit ==
    /\ energy_pc = "idle"
    /\ energy_args = NoEnergyArgs
    /\ energy_data = NoEnergyData

\* A call of calculate_energy_production (lines 47-85).
EnergyCall ==
    /\ energy_pc = "idle"
    /\ \E n \in 0..MaxPanels, area \in PanelAreas, eff \in Efficiencies,
          ratio \in PerformanceRatios, irr \in Irradiances :
          /\ energy_args' =
                 [num_panels |-> n, panel_area_m2 |-> area, panel_efficiency |-> eff,
                  performance_ratio |-> ratio, avg_daily_irradiance_kwh_m2 |-> irr]
          /\ energy_data' = calculate_energy_production(n, area, eff, ratio, irr)
    /\ energy_pc' = "returned"
    /\ UNCHANGED energyRest

\* The caller has stored the fields of the dict (app.py:411-412).
EnergyDiscard ==
    /\ energy_pc = "returned"
    /\ energy_pc' = "idle"
    /\ energy_args' = NoEnergyArgs
    /\ energy_data' = NoEnergyData
    /\ UNCHANGED energyRest

EnergyNext == EnergyCall \/ EnergyDiscard

\* ------------------------------------------------------- slope, aspect
\* A cell of a float grid: not-a-number, or a number.  Arithmetic with NaN
\* gives NaN and every comparison with NaN is false, as in numpy.
NaN == [nan |-> TRUE]
Num(v) == [nan |-> FALSE, v |-> v]
IsNaN(a) == a.nan
NanLess(a, c) == ~a.nan /\ a.v < c

\* Units.  Elevations are whole steps of 2^-19 m (about 1.9 micrometres), so
\* the kernel's sums are exact in the program too and the 1e-6 degree test of
\* line 60 falls among the gradients small grids produce.  dz_dx and dz_dy are
\* kept as their numerators (the divisor 8 * 30 of lines 41 and 46 is in
\* slope_scale); slopes are in units of 1e-8 degree, aspects in thousandths
\* of a degree.
\* (degrees(2^-19 / (8 * 30)) / 1e-8)^2 = 2073.40, times 100.
slope_scale == 207340
\* 1e-6 degree (line 60), 360 degrees (line 57), the sentinel -1 (line 60).
flat_threshold == 100
full_circle == 360000
flat_sentinel == -1000

\* The grids the calls of the model pass: every grid of these shapes.
GridShapes == (1..3) \X (1..3)
Cells == {NaN} \cup {Num(v) : v \in 0..MaxElev}
Grids(shape) == [1..shape[1] -> [1..shape[2] -> Cells]]

NumRows(g) == Len(g)
NumCols(g) == Len(g[1])
Clamp(i, n) == IF i < 1 THEN 1 ELSE IF i > n THEN n ELSE i
\* Line 35: np.pad(dem, 1, mode='edge') read at row i, column j of the grid
\* (0 and n+1 are the padding).
Padded(g, i, j) == g[Clamp(i, NumRows(g))][Clamp(j, NumCols(g))]

\* One difference of the kernel: (a + 2*b + c) - (d + 2*e + f), NaN when a
\* term is NaN (IEEE 754).
HornDifference(a, b, c, d, e, f) ==
    IF a.nan \/ b.nan \/ c.nan \/ d.nan \/ e.nan \/ f.nan THEN NaN
    ELSE Num((a.v + 2 * b.v + c.v) - (d.v + 2 * e.v + f.v))

\* Lines 38-41, numerator: the column to the east minus the column to the west.
dz_dx(g, i, j) ==
    HornDifference(Padded(g, i - 1, j + 1), Padded(g, i, j + 1), Padded(g, i + 1, j + 1),
                   Padded(g, i - 1, j - 1), Padded(g, i, j - 1), Padded(g, i + 1, j - 1))

\* Lines 43-46, numerator: the row to the south minus the row to the north.
dz_dy(g, i, j) ==
    HornDifference(Padded(g, i + 1, j - 1), Padded(g, i + 1, j), Padded(g, i + 1, j + 1),
                   Padded(g, i - 1, j - 1), Padded(g, i - 1, j), Padded(g, i - 1, j + 1))

RECURSIVE SqrtBetween(_, _, _)
\* The integer square root of n, between lo and hi.
SqrtBetween(n, lo, hi) ==
    IF lo >= hi THEN lo
    ELSE LET mid == (lo + hi + 1) \div 2
         IN  IF mid * mid <= n THEN SqrtBetween(n, mid, hi)
             ELSE SqrtBetween(n, lo, mid - 1)

\* degrees(sqrt(s2)) in 1e-8 degree for every sum of squares the kernel can
\* produce: each numerator is within -4 * MaxElev .. 4 * MaxElev.
SlopeTable ==
    [s2 \in 0..(32 * MaxElev * MaxElev) |->
        SqrtBetween((s2 * slope_scale) \div 100, 0, 4096)]

\* Lines 49-50: degrees(arctan(sqrt(dz_dx**2 + dz_dy**2))), in 1e-8 degree.
\* The gradients of the model are below 1e-4, where arctan(t) = t to 1e-12.
SlopeDegrees(dx, dy) ==
    IF dx.nan \/ dy.nan THEN NaN
    ELSE Num(SlopeTable[dx.v * dx.v + dy.v * dy.v])

\* degrees(arctan(p/q)) in thousandths, row p + 1, column q, for 0 <= p <= q.
ArctanTable ==
   << <<     0,     0,     0,     0,     0,     0,     0,     0,     0,     0,     0,     0 >>,
      << 45000, 26565, 18435, 14036, 11310,  9462,  8130,  7125,  6340,  5711,  5194,  4764 >>,
      <<     0, 45000, 33690, 26565, 21801, 18435, 15945, 14036, 12529, 11310, 10305,  9462 >>,
      <<     0,     0, 45000, 36870, 30964, 26565, 23199, 20556, 18435, 16699, 15255, 14036 >>,
      <<     0,     0,     0, 45000, 38660, 33690, 29745, 26565, 23962, 21801, 19983, 18435 >>,
      <<     0,     0,     0,     0, 45000, 39806, 35538, 32005, 29055, 26565, 24444, 22620 >>,
      <<     0,     0,     0,     0,     0, 45000, 40601, 36870, 33690, 30964, 28610, 26565 >>,
      <<     0,     0,     0,     0,     0,     0, 45000, 41186, 37875, 34992, 32471, 30256 >>,
      <<     0,     0,     0,     0,     0,     0,     0, 45000, 41634, 38660, 36027, 33690 >>,
      <<     0,     0,     0,     0,     0,     0,     0,     0, 45000, 41987, 39289, 36870 >>,
      <<     0,     0,     0,     0,     0,     0,     0,     0,     0, 45000, 42274, 39806 >>,
      <<     0,     0,     0,     0,     0,     0,     0,     0,     0,     0, 45000, 42510 >>,
      <<     0,     0,     0,     0,     0,     0,     0,     0,     0,     0,     0, 45000 >> >>

\* degrees(arctan(p/q)) for p, q >= 0, not both 0: within 0..90000.
ArctanDegrees(p, q) ==
    IF p <= q THEN ArctanTable[p + 1][q] ELSE 90000 - ArctanTable[q + 1][p]

\* degrees(arctan2(y, x)) in thousandths: within -180000 (excluded) .. 180000.
Arctan2Degrees(y, x) ==
    IF x = 0 /\ y = 0 THEN 0
    ELSE IF x >= 0 /\ y >= 0 THEN ArctanDegrees(y, x)
    ELSE IF x < 0 /\ y >= 0 THEN 180000 - ArctanDegrees(y, 0 - x)
    ELSE IF x >= 0 THEN 0 - ArctanDegrees(0 - y, x)
    ELSE ArctanDegrees(0 - y, 0 - x) - 180000

\* Lines 53-54: degrees(arctan2(dz_dx, dz_dy)).
AspectRaw(dx, dy) ==
    IF dx.nan \/ dy.nan THEN NaN ELSE Num(Arctan2Degrees(dx.v, dy.v))

\* Line 57: aspect_deg[aspect_deg < 0] += 360.
AspectNormalized(a) == IF NanLess(a, 0) THEN Num(a.v + full_circle) ELSE a

\* Line 60: the cells with slope_deg < 1e-6.
IsFlatOnlyZero(slope) == NanLess(slope, 1)

IsFlat(slope) == NanLess(slope, flat_threshold)

\* Line 60: aspect_deg[slope_deg < 1e-6] = -1.
AspectFlagged(a, slope) == IF IsFlat(slope) THEN Num(flat_sentinel) ELSE a

\* Lines 63-65: a[nan_mask] = np.nan.
NanMaskedUnmasked(a, source) == a

NanMasked(a, source) == IF IsNaN(source) THEN NaN ELSE a

\* Lines 49-60 at one cell, from its two gradients.
SlopeAndAspect(slope, a) == [slope |-> slope, aspect |-> AspectFlagged(a, slope)]

\* Lines 38-60 at one cell: slope_deg and aspect_deg before the mask.
BeforeMaskOf(dx, dy) ==
    SlopeAndAspect(SlopeDegrees(dx, dy), AspectNormalized(AspectRaw(dx, dy)))

BeforeMask(g, i, j) == BeforeMaskOf(dz_dx(g, i, j), dz_dy(g, i, j))

\* Lines 63-65 over the grid: both outputs masked by the source.
MaskedGrids(before, g) ==
    [slope |-> [i \in 1..NumRows(g) |-> [j \in 1..NumCols(g) |->
                   NanMasked(before[i][j].slope, g[i][j])]],
     aspect |-> [i \in 1..NumRows(g) |-> [j \in 1..NumCols(g) |->
                   NanMasked(before[i][j].aspect, g[i][j])]]]

\* Lines 13-83: the two grids a call returns.
calculate_slope_aspect_horn(g) ==
    MaskedGrids([i \in 1..NumRows(g) |-> [j \in 1..NumCols(g) |-> BeforeMask(g, i, j)]], g)

\* SlopeCalculator.__init__ (lines 9-11): no call made yet.
SlopeInit ==
    /\ slope_pc = "idle"
    /\ dem = << >>
    /\ slope_deg = << >>
    /\ aspect_deg = << >>

\* A call of calculate_slope_aspect_horn (lines 13-83).
HornCall ==
    /\ slope_pc = "idle"
    /\ \E shape \in GridShapes : \E g \in Grids(shape) :
          \E out \in {calculate_slope_aspect_horn(g)} :
              /\ dem' = g
              /\ slope_deg' = out.slope
              /\ aspect_deg' = out.aspect
    /\ slope_pc' = "returned"
    /\ UNCHANGED slopeRest

\* The caller has stored the two grids (app.py).
HornDiscard ==
    /\ slope_pc = "returned"
    /\ slope_pc' = "idle"
    /\ dem' = << >>
    /\ slope_deg' = << >>
    /\ aspect_deg' = << >>
    /\ UNCHANGED slopeRest

SlopeNext == HornCall \/ HornDiscard

\* ---------------------------------------------------------------------
\* SlopeCalculator.get_aspect_direction (slope_calculator.py:92-112).
\* A degree value is NaN or a number of ten-thousandths of a degree, so that
\* 22.4999 and 22.5 are both inputs.

Tenths(t) == t * 1000
NanGeq(a, c) == ~a.nan /\ a.v >= c

\* Lines 97-110: (degrees >= lo) and (degrees < hi).
InBinClosedAbove(d, lo, hi) == NanGeq(d, lo) /\ NanLess(d, hi + 1)

InBin(d, lo, hi) == NanGeq(d, lo) /\ NanLess(d, hi)

\* Lines 92-112.
get_aspect_direction(degrees) ==
    IF NanLess(degrees, 0) THEN "Flat"
    ELSE IF NanGeq(degrees, Tenths(3375)) \/ NanLess(degrees, Tenths(225)) THEN "N"
    ELSE IF InBin(degrees, Tenths(225), Tenths(675)) THEN "NE"
    ELSE IF InBin(degrees, Tenths(675), Tenths(1125)) THEN "E"
    ELSE IF InBin(degrees, Tenths(1125), Tenths(1575)) THEN "SE"
    ELSE IF InBin(degrees, Tenths(1575), Tenths(2025)) THEN "S"
    ELSE IF InBin(degrees, Tenths(2025), Tenths(2475)) THEN "SW"
    ELSE IF InBin(degrees, Tenths(2475), Tenths(2925)) THEN "W"
    ELSE IF InBin(degrees, Tenths(2925), Tenths(3375)) THEN "NW"
    ELSE "N/A"

\* The arguments the calls of the model pass: NaN, -5.0 to 400.0 in steps of
\* 2.5, the values 0.0001 to either side of each bin edge and of 0 and 360,
\* and the sentinel -1.
DirectionInputs ==
    {NaN} \cup
    {Num(v) : v \in {Tenths(25 * k) : k \in -2..160}
                    \cup {Tenths(225 + 450 * k) + e : k \in 0..7, e \in {-1, 1}}
                    \cup {-10000, -1, 1, Tenths(3600) - 1, Tenths(3600) + 1}}

\* Nothing converted yet.
DirectionInit ==
    /\ direction_pc = "idle"
    /\ direction_degrees = NaN
    /\ direction_label = ""

\* A call of get_aspect_direction (lines 92-112).
DirectionCall ==
    /\ direction_pc = "idle"
    /\ \E d \in DirectionInputs :
          /\ direction_degrees' = d
          /\ direction_label' = get_aspect_direction(d)
    /\ direction_pc' = "returned"
    /\ UNCHANGED directionRest

\* The caller has put the label into its text (export_service.py:32).
DirectionDiscard ==
    /\ direction_pc = "returned"
    /\ direction_pc' = "idle"
    /\ direction_degrees' = NaN
    /\ direction_label' = ""
    /\ UNCHANGED directionRest

DirectionNext == DirectionCall \/ DirectionDiscard

\* ---------------------------------------------------------------------
\* SlopeCalculator.create_slope_visualization (slope_calculator.py:114-161).
\* Slopes and aspects are NaN or numbers of ten-thousandths of a degree; an
\* image is a grid of records [r, g, b, a] of uint8 values.

nodata_sentinel == -99990000
low_slope_limit == 50000
south_band_low == 1125000
south_band_high == 2475000
uint8_max == 255

\* The cells (slope, aspect) of the grids the calls of the model pass.
VisCells ==
    { << NaN, NaN >>, << NaN, Num(south_band_low) >>,
      << Num(nodata_sentinel), Num(-10000) >>,
      << Num(0), Num(-10000) >>, << Num(0), NaN >>,
      << Num(25000), Num(south_band_low - 1) >>, << Num(25000), Num(south_band_low) >>,
      << Num(25000), Num(south_band_high) >>, << Num(25000), Num(south_band_high + 1) >>,
      << Num(low_slope_limit), Num(south_band_low) >>,
      << Num(low_slope_limit), Num(south_band_high + 1) >>,
      << Num(100000), Num(1800000) >> }

\* One row of up to MaxVisCells cells, or one column of as many.
VisShapes == {<< 1, k >> : k \in 1..MaxVisCells} \cup {<< k, 1 >> : k \in 1..MaxVisCells}
VisGrids(shape) == [1..shape[1] -> [1..shape[2] -> VisCells]]

\* nodata_value: None or the value the GeoTIFF names (app.py:172).
NodataValues == {None, Some(nodata_sentinel)}

\* What astype(np.uint8) can give for a float below 0 (line 129): the C
\* conversion is undefined there, and one value converts the same way
\* throughout a call.
UndefinedGrays == {0, 128, uint8_max}

\* Lines 116-120: slope_display at one cell.
slope_display(slope, nodata_value) ==
    IF ~IsNone(nodata_value) /\ IsNaN(slope) THEN Num(nodata_sentinel) ELSE slope

\* Line 122: slope_display != -9999 (True for NaN).
IsValidSlope(d) == d # Num(nodata_sentinel)

\* Line 122: the values of valid_slope.
valid_slope(slopes, nodata_value) ==
    {c \in {<< i, j >> : i \in 1..NumRows(slopes), j \in 1..NumCols(slopes)} :
        IsValidSlope(slope_display(slopes[c[1]][c[2]], nodata_value))}

\* Line 127: the numbers np.nanmin and np.nanmax range over.
ValidNumbers(slopes, nodata_value) ==
    {slopes[c[1]][c[2]].v : c \in {d \in valid_slope(slopes, nodata_value) :
                                       ~IsNaN(slopes[d[1]][d[2]])}}

SetMin(S) == CHOOSE x \in S : \A y \in S : x <= y
SetMax(S) == CHOOSE x \in S : \A y \in S : x >= y

\* Lines 127-129 at one cell: img_gray.  lo and hi are np.nanmin and
\* np.nanmax of valid_slope; numbers == {} is the all-NaN slice, where both
\* are NaN.  0/0 and NaN become 0 (line 128); a quotient below 0 is converted
\* by astype(np.uint8) to undefined_gray.
img_gray_at(d, numbers, undefined_gray) ==
    IF IsNaN(d) \/ numbers = {} THEN 0
    ELSE IF SetMax(numbers) = SetMin(numbers)
         THEN IF d.v = SetMin(numbers) THEN 0 ELSE undefined_gray
    ELSE IF d.v < SetMin(numbers) THEN undefined_gray
    ELSE ((d.v - SetMin(numbers)) * uint8_max) \div (SetMax(numbers) - SetMin(numbers))

\* np.clip(x, 0, 255) stored into the uint8 image, for x >= 0 given in tenths.
ClipTenths(x) == IF x \div 10 > uint8_max THEN uint8_max ELSE x \div 10

\* Line 137.
low_slope_mask(slope) == NanLess(slope, low_slope_limit)

\* Lines 140-143.
south_facing_mask_open(aspect) ==
    NanGeq(aspect, south_band_low + 1) /\ NanLess(aspect, south_band_high)

south_facing_mask_unbounded(aspect) == NanLess(aspect, south_band_high + 1)

south_facing_mask(aspect) ==
    NanGeq(aspect, south_band_low) /\ NanLess(aspect, south_band_high + 1)

\* Lines 158-159.
alpha_opaque(slope) == uint8_max

alpha_at(slope) == IF IsNaN(slope) THEN 0 ELSE uint8_max

\* Lines 132-159 at one cell.
rgba_at(slope, aspect, gray) ==
    IF low_slope_mask(slope) /\ south_facing_mask(aspect)
    THEN [r |-> ClipTenths(3 * gray), g |-> ClipTenths(7 * gray + 1000),
          b |-> ClipTenths(3 * gray), a |-> alpha_at(slope)]
    ELSE IF low_slope_mask(slope)
    THEN [r |-> ClipTenths(9 * gray + 1000), g |-> ClipTenths(8 * gray + 1000),
          b |-> ClipTenths(3 * gray), a |-> alpha_at(slope)]
    ELSE [r |-> gray, g |-> gray, b |-> gray, a |-> alpha_at(slope)]

\* Lines 127-129 over the grid.
img_gray(slopes, nodata_value, numbers, undefined_gray) ==
    [i \in 1..NumRows(slopes) |-> [j \in 1..NumCols(slopes) |->
        img_gray_at(slope_display(slopes[i][j], nodata_value), numbers, undefined_gray)]]

\* Lines 132-161 over the grid.
display_image_rgba(slopes, aspects, gray) ==
    [i \in 1..NumRows(slopes) |-> [j \in 1..NumCols(slopes) |->
        rgba_at(slopes[i][j], aspects[i][j], gray[i][j])]]

ImageOf(slopes, aspects, gray) ==
    [gray |-> gray, image |-> display_image_rgba(slopes, aspects, gray)]

\* Lines 114-161: the local img_gray and the value returned.
create_slope_visualization(slopes, aspects, nodata_value, undefined_gray) ==
    IF valid_slope(slopes, nodata_value) = {}
    THEN [gray |-> None, image |-> None]
    ELSE ImageOf(slopes, aspects,
                 img_gray(slopes, nodata_value, ValidNumbers(slopes, nodata_value),
                          undefined_gray))

\* No image made yet.
VisInit ==
    /\ vis_pc = "idle"
    /\ vis_slope = << >>
    /\ vis_aspect = << >>
    /\ vis_nodata = None
    /\ vis_gray = None
    /\ vis_image = None

\* A call of create_slope_visualization (lines 114-161).
VisCall ==
    /\ vis_pc = "idle"
    /\ \E shape \in VisShapes : \E cells \in VisGrids(shape) :
       \E nodata_value \in NodataValues, undefined_gray \in UndefinedGrays :
       \E slopes \in {[i \in 1..shape[1] |-> [j \in 1..shape[2] |-> cells[i][j][1]]]} :
       \E aspects \in {[i \in 1..shape[1] |-> [j \in 1..shape[2] |-> cells[i][j][2]]]} :
       \E out \in {create_slope_visualization(slopes, aspects, nodata_value,
                                              undefined_gray)} :
          /\ vis_slope' = slopes
          /\ vis_aspect' = aspects
          /\ vis_nodata' = nodata_value
          /\ vis_gray' = out.gray
          /\ vis_image' = out.image
    /\ vis_pc' = "returned"
    /\ UNCHANGED visRest

\* The caller has stored the image (app.py:184-189).
VisDiscard ==
    /\ vis_pc = "returned"
    /\ vis_pc' = "idle"
    /\ vis_slope' = << >>
    /\ vis_aspect' = << >>
    /\ vis_nodata' = None
    /\ vis_gray' = None
    /\ vis_image' = None
    /\ UNCHANGED visRest

VisNext == VisCall \/ VisDiscard

\* ---------------------------------------------------------------------
\* The application: GeoTIFFSlopeViewer (app.py), DataManager
\* (core/data_manager.py), InputValidator (utils/validators.py),
\* ConversionUtils (utils/conversions.py), LocationService
\* (services/location_service.py), ExportService (services/export_service.py).

\* float(text) for the texts the entry fields of the model hold: a number of
\* hundredths, NaN for "nan", and ValueError for the others.
FloatTexts ==
    [t \in {"-1", "0", "0.25", "0.8", "1.67", "2.5", "3", "5", "10", "18", "150"} |->
        CASE t = "-1" -> -100 [] t = "0" -> 0 [] t = "0.25" -> 25 [] t = "0.8" -> 80
          [] t = "1.67" -> 167 [] t = "2.5" -> 250 [] t = "3" -> 300 [] t = "5" -> 500
          [] t = "10" -> 1000 [] t = "18" -> 1800 [] t = "150" -> 15000]

ValueError == [ok |-> FALSE]
Parsed(x) == [ok |-> TRUE, x |-> x]

\* float(value_str).
ParseFloat(text) ==
    IF text = "nan" THEN Parsed(NaN)
    ELSE IF text \in DOMAIN FloatTexts THEN Parsed(Num(FloatOfHundredths(FloatTexts[text])))
    ELSE ValueError

\* int(value_str): a text with a point, "nan" and words raise ValueError.
ParseInt(text) ==
    IF text \in {"-1", "0", "3", "5", "10", "18", "150"}
    THEN Parsed(FloatTexts[text] \div 100)
    ELSE ValueError

\* A message is the field's name and what is wrong with it; << >> stands for
\* the empty message of a field that passed.
Message(field_name, what) == << field_name, what >>

\* validators.py:10-23.
validate_positive_float(value_str, field_name) ==
    IF ~ParseFloat(value_str).ok THEN Message(field_name, "must be a valid number")
    ELSE IF ~IsNaN(ParseFloat(value_str).x) /\ ParseFloat(value_str).x.v <= 0
         THEN Message(field_name, "must be positive")
    ELSE << >>

\* validators.py:25-33.
validate_positive_integer(value_str, field_name) ==
    IF ~ParseInt(value_str).ok THEN Message(field_name, "must be a valid integer")
    ELSE IF ParseInt(value_str).x <= 0 THEN Message(field_name, "must be positive")
    ELSE << >>

\* 0 < value <= hi on floats: False for NaN.
InRange(x, hi) == ~IsNaN(x) /\ 0 < x.v /\ x.v <= hi

\* validators.py:35-43.
validate_percentage(value_str, field_name) ==
    IF ~ParseFloat(value_str).ok THEN Message(field_name, "must be a valid number")
    ELSE IF ~InRange(ParseFloat(value_str).x, FloatOfInt(100))
         THEN Message(field_name, "must be between 0 and 100")
    ELSE << >>

\* validators.py:45-53.
validate_ratio(value_str, field_name) ==
    IF ~ParseFloat(value_str).ok THEN Message(field_name, "must be a valid number")
    ELSE IF ~InRange(ParseFloat(value_str).x, One)
         THEN Message(field_name, "must be between 0 and 1")
    ELSE << >>

\* errors.append(error) under "if not is_valid".
Collect(errors, message) == IF message = << >> THEN errors ELSE Append(errors, message)

\* validators.py:55-84.
validate_packing_inputs(width_input, height_input, panel_width, panel_height, unit, num_objects) ==
    Collect(Collect(Collect(
        IF unit = "meters"
        THEN Collect(Collect(<< >>, validate_positive_float(width_input, "Land width/area")),
                     validate_positive_float(height_input, "Land height"))
        ELSE Collect(<< >>, validate_positive_float(width_input, "Land width/area")),
        validate_positive_float(panel_width, "Panel width")),
        validate_positive_float(panel_height, "Panel height")),
        IF IsNone(num_objects) THEN << >>
        ELSE validate_positive_integer(Value(num_objects), "Number of objects"))

\* validators.py:86-98.
validate_energy_inputs(efficiency, performance_ratio) ==
    Collect(Collect(<< >>, validate_percentage(efficiency, "Panel efficiency")),
            validate_ratio(performance_ratio, "Performance ratio"))

\* A product of floats either of which may be NaN.
NanMul(a, b) == IF IsNaN(a) \/ IsNaN(b) THEN NaN ELSE Num(FloatMul(a.v, b.v))

\* x ** 0.5 of a float x >= 0, correctly rounded (the odd numerator keeps an
\* inexact root off the rounding ties).
FloatSqrt(x) ==
    IF SqrtBetween(x * One, 0, 46340) * SqrtBetween(x * One, 0, 46340) = x * One
    THEN FloatRound(SqrtBetween(x * One, 0, 46340), 1)
    ELSE FloatRound(2 * SqrtBetween(x * One, 0, 46340) + 1, 2)

\* conversions.py:11-36: (width_m, height_m); the texts have passed float().
convert_area_to_meters(width_input, height_input, unit) ==
    IF unit = "hectares"
    THEN IF IsNaN(ParseFloat(width_input).x) THEN << NaN, NaN >>
         ELSE << Num(FloatSqrt(FloatMul(ParseFloat(width_input).x.v, FloatOfInt(10000)))),
                 Num(FloatSqrt(FloatMul(ParseFloat(width_input).x.v, FloatOfInt(10000)))) >>
    ELSE << ParseFloat(width_input).x, ParseFloat(height_input).x >>

\* next_fit_shelf_packing on arguments that may be NaN: every comparison
\* with a NaN is False, so the validation passes (lines 48-51) and the first
\* fit test fails (lines 63-65, 82-83): the list is empty.
PackerResult(land_width_m, land_height_m, panel_width_m, panel_height_m, num_to_pack) ==
    IF IsNaN(land_width_m) \/ IsNaN(land_height_m) \/ IsNaN(panel_width_m)
       \/ IsNaN(panel_height_m)
    THEN << >>
    ELSE next_fit_shelf_packing(land_width_m.v, land_height_m.v, panel_width_m.v,
                                panel_height_m.v, num_to_pack)

\* round(x * 10^places) of a float, ties to even: the number an f-string
\* with ".0f" or ".2f" prints, in units of 10^-places.
RoundHalfEven(a, b) ==
    IF 2 * (a % b) > b \/ (2 * (a % b) = b /\ (a \div b) % 2 = 1)
    THEN a \div b + 1
    ELSE a \div b
FormatFixed(x, scale) ==
    IF x >= 0 THEN RoundHalfEven(x * scale, One) ELSE 0 - RoundHalfEven((0 - x) * scale, One)
\* The same for a value that may be NaN, which prints as "nan" (NaN here).
FormatFixedNan(x, scale) == IF IsNaN(x) THEN NaN ELSE Num(FormatFixed(x.v, scale))

\* The places a click can set the marker at: two points of one town.
Locations == {"A", "B"}

\* What the NASA POWER request of one call can end in: a network or parse
\* error, a response without the ANN value, or a reading.
Responses ==
    {[failed |-> TRUE, ANN |-> None]}
    \cup {[failed |-> FALSE, ANN |-> a] :
              a \in {None} \cup {Some(FloatOfHundredths(i)) : i \in {-100, 452}}}
\* The answers the request of one call can get: none is asked for when the
\* reading is in the cache.
Answers(cache, location) ==
    IF IsNone(cache[location]) THEN Responses ELSE {[failed |-> FALSE, ANN |-> None]}

\* The entry fields as the user left them.
BaseForm ==
    [entry_land_width |-> "10", entry_land_height |-> "5", land_unit |-> "meters",
     entry_obj_width |-> "1.67", entry_obj_height |-> "2.5",
     pack_mode |-> "max", entry_num_objects |-> "3",
     entry_panel_efficiency |-> "18", entry_perf_ratio |-> "0.8"]
NoForm ==
    [entry_land_width |-> "", entry_land_height |-> "", land_unit |-> "",
     entry_obj_width |-> "", entry_obj_height |-> "",
     pack_mode |-> "", entry_num_objects |-> "",
     entry_panel_efficiency |-> "", entry_perf_ratio |-> ""]
Forms ==
    { BaseForm,
      [BaseForm EXCEPT !.entry_land_width = "5", !.entry_num_objects = "abc"],
      [BaseForm EXCEPT !.entry_land_width = "3", !.entry_land_height = "3"],
      [BaseForm EXCEPT !.land_unit = "hectares", !.entry_land_width = "0.25",
                       !.entry_land_height = "abc", !.pack_mode = "specify"],
      [BaseForm EXCEPT !.pack_mode = "specify", !.entry_num_objects = "2.5",
                       !.entry_perf_ratio = "nan"],
      [BaseForm EXCEPT !.pack_mode = "specify", !.entry_num_objects = "0"],
      [BaseForm EXCEPT !.land_unit = "hectares", !.entry_land_width = "-1",
                       !.entry_land_height = "0"],
      [BaseForm EXCEPT !.entry_land_width = "abc", !.entry_land_height = "0",
                       !.entry_panel_efficiency = "150"],
      [BaseForm EXCEPT !.entry_obj_width = "", !.entry_obj_height = "-1",
                       !.entry_panel_efficiency = "0", !.entry_perf_ratio = "5"],
      [BaseForm EXCEPT !.entry_land_width = "nan"],
      [BaseForm EXCEPT !.entry_obj_height = "nan", !.entry_panel_efficiency = "nan"] }

\* DataManager.__init__ (data_manager.py:7-34); slope_degrees is None or,
\* once a file is loaded, the grid.
NewDataManager ==
    [slope_degrees |-> None, marker_pixel_coords |-> None, marker_lon_lat |-> None,
     location_name |-> "Not Set", num_panels_packed |-> 0, annual_energy_kwh |-> 0,
     daily_energy_kwh |-> 0, land_area_m2 |-> Num(0)]

\* DataManager.clear_data, clear_marker, clear_analysis_results.
clear_data(dm) == [dm EXCEPT !.slope_degrees = None]
clear_marker(dm) ==
    [dm EXCEPT !.marker_pixel_coords = None, !.marker_lon_lat = None,
               !.location_name = "Not Set"]
clear_analysis_results(dm) ==
    [dm EXCEPT !.num_panels_packed = 0, !.annual_energy_kwh = 0,
               !.daily_energy_kwh = 0, !.land_area_m2 = Num(0)]
is_data_loaded(dm) == ~IsNone(dm.slope_degrees)
is_marker_set_unchecked(dm) == TRUE
is_marker_set(dm) == ~IsNone(dm.marker_pixel_coords)

\* InfoBar.reset_display (info_bar.py:312-320): the texts of the info bar,
\* the energies in hundredths and in units as their formats print them.
reset_display ==
    [info_panels_count |-> 0, info_daily_energy |-> 0, info_annual_energy |-> 0,
     info_location |-> None, info_location_name |-> "Not Set", info_land_size |-> Num(0)]

\* GeoTIFFSlopeViewer.update_info_display (app.py:493-509).
update_info_display(bar, dm) ==
    IF IsNone(dm.marker_lon_lat)
    THEN [bar EXCEPT !.info_panels_count = dm.num_panels_packed,
                     !.info_daily_energy = FormatFixed(dm.daily_energy_kwh, 100),
                     !.info_annual_energy = FormatFixed(dm.annual_energy_kwh, 1)]
    ELSE [info_panels_count |-> dm.num_panels_packed,
          info_daily_energy |-> FormatFixed(dm.daily_energy_kwh, 100),
          info_annual_energy |-> FormatFixed(dm.annual_energy_kwh, 1),
          info_location |-> dm.marker_lon_lat,
          info_location_name |-> dm.location_name,
          info_land_size |-> FormatFixedNan(dm.land_area_m2, 1)]

\* The two result labels of the control panel after
\* GeoTIFFSlopeViewer.clear_analysis_results (app.py:476-479).
ClearedLabels ==
    [lbl_panels_packed |-> "Not calculated", lbl_annual_energy |-> "Not calculated"]

\* The row ExportService.export_analysis_results writes (lines 52-65),
\* without the timestamp and the terrain columns.
ExportRow(dm) ==
    [Location |-> dm.marker_lon_lat, Location_Name |-> dm.location_name,
     Num_Panels |-> dm.num_panels_packed,
     Annual_Energy_kWh |-> FormatFixed(dm.annual_energy_kwh, 100),
     Daily_Energy_kWh |-> FormatFixed(dm.daily_energy_kwh, 100),
     Land_Area_m2 |-> FormatFixedNan(dm.land_area_m2, 100)]

\* What a handler did: the event, the form it read, the messages of the
\* validation, the dialog it showed, the components it invoked in order, how
\* each network request it made ended and the row it wrote to a CSV file.
Event(kind, form, errors, dialog, invoked, requests) ==
    [kind |-> kind, form |-> form, errors |-> errors, dialog |-> dialog,
     invoked |-> invoked, requests |-> requests, written |-> None]
\* No handler is running: the Tk main loop waits for the next event.
Idle == Event("idle", NoForm, << >>, "", << >>, << >>)

\* The messages run_packing_and_energy_simulation collects for a form
\* (app.py:317-331).
all_errors ==
    [form \in Forms |->
        validate_packing_inputs(
            form.entry_land_width, form.entry_land_height,
            form.entry_obj_width, form.entry_obj_height, form.land_unit,
            IF form.pack_mode = "specify" THEN Some(form.entry_num_objects) ELSE None)
        \o validate_energy_inputs(form.entry_panel_efficiency, form.entry_perf_ratio)]

\* Lines 337-359 for a form that passed: the Packer's count, the land area
\* and the panel area handed to the Estimator (line 379).
PackForm(form, land, panel_width_m, panel_height_m) ==
    [num_panels_packed |->
         Len(PackerResult(land[1], land[2], panel_width_m, panel_height_m,
                          IF form.pack_mode = "specify"
                          THEN Some(ParseInt(form.entry_num_objects).x) ELSE None)),
     land_area_m2 |-> NanMul(land[1], land[2]),
     panel_area_m2 |-> NanMul(panel_width_m, panel_height_m)]
Packed ==
    [form \in {f \in Forms : all_errors[f] = << >>} |->
        PackForm(form,
                 convert_area_to_meters(form.entry_land_width, form.entry_land_height,
                                        form.land_unit),
                 ParseFloat(form.entry_obj_width).x,
                 ParseFloat(form.entry_obj_height).x)]

\* EnergyEstimator.fetch_solar_irradiance over _cached_nasa_call
\* (energy_estimator.py:16-45): a stored reading is returned without a
\* request; a request that fails, or whose reading is missing or negative,
\* raises and stores nothing.
fetch_solar_irradiance(cache, location, response) ==
    IF ~IsNone(cache[location])
    THEN [raised |-> FALSE, value |-> Value(cache[location]), cache |-> cache,
          requests |-> << >>]
    ELSE IF response.failed \/ IsNone(response.ANN) \/ Value(response.ANN) < 0
    THEN [raised |-> TRUE, value |-> 0, cache |-> cache,
          requests |-> << IF response.failed THEN "error" ELSE "invalid reading" >>]
    ELSE [raised |-> FALSE, value |-> Value(response.ANN),
          cache |-> [cache EXCEPT ![location] = response.ANN],
          requests |-> << "reading" >>]

\* GeoTIFFSlopeViewer.__init__: nothing loaded, no marker, no results.
AppInit ==
    /\ data_manager = NewDataManager
    /\ nasa_cache = [location \in Locations |-> None]
    /\ info_bar = reset_display
    /\ controls = ClearedLabels
    /\ app_event = Idle

\* load_geotiff (app.py:127-210): no file chosen or a bad file returns at
\* once; otherwise everything is cleared and the file is loaded, or the
\* loading fails and everything is cleared again.
LoadGeoTIFF ==
    /\ app_event = Idle
    /\ \E outcome \in {"no file", "loaded", "failed"} :
        /\ IF outcome = "no file"
           THEN UNCHANGED << data_manager, controls, info_bar >>
           ELSE /\ data_manager' =
                       [clear_analysis_results(clear_marker(clear_data(data_manager)))
                           EXCEPT !.slope_degrees =
                               IF outcome = "loaded" THEN Some("grid") ELSE None]
                /\ controls' = ClearedLabels
                /\ info_bar' = reset_display
        /\ app_event' = Event("load", NoForm, << >>,
                              IF outcome = "failed" THEN "Failed to load GeoTIFF" ELSE "",
                              << >>, << >>)
        /\ UNCHANGED << nasa_cache, appRest >>

\* on_click_map (app.py:212-255): nothing without a loaded file; otherwise
\* the marker moves, the info bar is refreshed and the result labels are
\* reset.  A failed coordinate conversion clears the marker.
ClickMap ==
    /\ app_event = Idle
    /\ \E location \in Locations, converted \in BOOLEAN :
        /\ IF ~is_data_loaded(data_manager)
           THEN UNCHANGED << data_manager, info_bar, controls >>
           ELSE IF converted
           THEN /\ data_manager' = [data_manager EXCEPT
                                        !.marker_pixel_coords = Some(location),
                                        !.marker_lon_lat = Some(location)]
                /\ info_bar' = update_info_display(info_bar, data_manager')
                /\ controls' = ClearedLabels
           ELSE /\ data_manager' = clear_marker(data_manager)
                /\ UNCHANGED << info_bar, controls >>
        /\ app_event' = Event("click", NoForm, << >>,
                              IF is_data_loaded(data_manager) /\ ~converted
                              THEN "Coordinate Error" ELSE "",
                              << >>, << >>)
        /\ UNCHANGED << nasa_cache, appRest >>

\* clear_marker_and_packing (app.py:458-474).
ClearMarker ==
    /\ app_event = Idle
    /\ data_manager' = clear_analysis_results(clear_marker(data_manager))
    /\ controls' = ClearedLabels
    /\ info_bar' = update_info_display(info_bar, data_manager')
    /\ app_event' = Event("clear", NoForm, << >>, "", << >>, << >>)
    /\ UNCHANGED << nasa_cache, appRest >>

\* GeoTIFFSlopeViewer.calculate_energy_production from the fetch on
\* (app.py:393-421) and the update_info_display that follows it
\* (app.py:382): the Estimator runs on the reading; a fetch that raised
\* leaves the stored energies as they were.
CalculateEnergy(form, dm, num_panels, panel_area_m2, fetched) ==
    IF fetched.raised
    THEN /\ data_manager' = dm
         /\ controls' = [lbl_panels_packed |-> "Panels Packed",
                         lbl_annual_energy |-> "Data unavailable"]
         /\ info_bar' = update_info_display(info_bar, dm)
         /\ app_event' = Event("analysis", form, << >>, "Energy Calculation Error",
                               << "packer", "fetch" >>, fetched.requests)
    ELSE \E estimate \in {calculate_energy_production(
                                 num_panels, panel_area_m2,
                                 FloatDiv(ParseFloat(form.entry_panel_efficiency).x.v,
                                          FloatOfInt(100)),
                                 ParseFloat(form.entry_perf_ratio).x.v,
                                 fetched.value)} :
         /\ data_manager' = [dm EXCEPT
                                !.annual_energy_kwh = estimate.annual_energy_kwh,
                                !.daily_energy_kwh = estimate.daily_energy_kwh]
         /\ controls' = [lbl_panels_packed |-> "Panels Packed",
                         lbl_annual_energy |-> "kWh"]
         /\ info_bar' = update_info_display(info_bar, data_manager')
         /\ app_event' = Event("analysis", form, << >>, "",
                               << "packer", "fetch", "estimator" >>, fetched.requests)

\* Lines 357-382 of run_packing_and_energy_simulation: the inputs have
\* passed the validation and the Packer has returned.
StoreAndEstimate(form, packed, dm) ==
    IF packed.num_panels_packed = 0
    THEN /\ data_manager' = dm
         /\ controls' = [lbl_panels_packed |-> "No panels could be packed",
                         lbl_annual_energy |-> "0 kWh"]
         /\ info_bar' = update_info_display(info_bar, dm)
         /\ app_event' = Event("analysis", form, << >>, "", << "packer" >>, << >>)
         /\ UNCHANGED nasa_cache
    ELSE IF IsNone(dm.marker_lon_lat)
    THEN \* calculate_energy_production returns at once (app.py:389-391).
         /\ data_manager' = dm
         /\ controls' = [lbl_panels_packed |-> "Panels Packed",
                         lbl_annual_energy |-> "Set marker first"]
         /\ info_bar' = update_info_display(info_bar, dm)
         /\ app_event' = Event("analysis", form, << >>, "", << "packer" >>, << >>)
         /\ UNCHANGED nasa_cache
    ELSE \E response \in Answers(nasa_cache, Value(dm.marker_lon_lat)) :
         \E fetched \in {fetch_solar_irradiance(
                              nasa_cache, Value(dm.marker_lon_lat), response)} :
             /\ nasa_cache' = fetched.cache
             /\ CalculateEnergy(form, dm, packed.num_panels_packed,
                                packed.panel_area_m2.v, fetched)

\* run_packing_and_energy_simulation (app.py:306-385).
RunAnalysis ==
    /\ app_event = Idle
    /\ \E form \in Forms :
           IF ~is_marker_set(data_manager)
           THEN /\ app_event' = Event("analysis", form, << >>,
                                      "Please click on the map to set a marker first.",
                                      << >>, << >>)
                /\ UNCHANGED << data_manager, nasa_cache, info_bar, controls >>
           ELSE IF ~is_data_loaded(data_manager)
           THEN /\ app_event' = Event("analysis", form, << >>,
                                      "Please load a GeoTIFF file first.", << >>, << >>)
                /\ UNCHANGED << data_manager, nasa_cache, info_bar, controls >>
           ELSE IF all_errors[form] # << >>
           THEN /\ app_event' = Event("analysis", form, all_errors[form],
                                      "Input Validation Error", << >>, << >>)
                /\ UNCHANGED << data_manager, nasa_cache, info_bar, controls >>
           ELSE StoreAndEstimate(
                    form, Packed[form],
                    [data_manager EXCEPT
                        !.num_panels_packed = Packed[form].num_panels_packed,
                        !.land_area_m2 = Packed[form].land_area_m2])
    /\ UNCHANGED appRest

\* LocationService.reverse_geocode (location_service.py:12-49): the name,
\* or a text in its place when the request fails.
reverse_geocode(location, outcome) ==
    IF outcome = "200" THEN "Los Banos, Laguna"
    ELSE IF outcome = "not 200" THEN "Location Unavailable"
    ELSE "Location Error"

\* update_location_name (app.py:423-441).
UpdateLocationName ==
    /\ app_event = Idle
    /\ \E outcome \in {"200", "not 200", "exception"} :
        /\ IF IsNone(data_manager.marker_lon_lat)
           THEN /\ app_event' = Event("location", NoForm, << >>, "Set a marker first.",
                                      << >>, << >>)
                /\ UNCHANGED << data_manager, info_bar >>
           ELSE /\ data_manager' =
                       [data_manager EXCEPT !.location_name =
                            reverse_geocode(Value(data_manager.marker_lon_lat), outcome)]
                /\ info_bar' = [info_bar EXCEPT !.info_location_name =
                                    data_manager'.location_name]
                /\ app_event' = Event("location", NoForm, << >>, "",
                                      << "reverse_geocode" >>, << outcome >>)
        /\ UNCHANGED << nasa_cache, controls, appRest >>

\* export_results (app.py:443-453) over
\* ExportService.export_analysis_results (export_service.py:13-72): nothing
\* without a marker or a chosen file, otherwise the row is written.
ExportResults ==
    /\ app_event = Idle
    /\ \E chosen \in BOOLEAN :
           app_event' =
               IF ~is_marker_set(data_manager)
               THEN Event("export", NoForm, << >>, "No analysis data to export.", << >>, << >>)
               ELSE IF ~chosen
               THEN Event("export", NoForm, << >>, "", << >>, << >>)
               ELSE [Event("export", NoForm, << >>, "Export Complete", << >>, << >>)
                        EXCEPT !.written = Some(ExportRow(data_manager))]
    /\ UNCHANGED << data_manager, nasa_cache, info_bar, controls, appRest >>

\* The handler returns to the Tk main loop (master.mainloop): its dialogs
\* are closed and the next event can be handled.
MainLoop ==
    /\ app_event # Idle
    /\ app_event' = Idle
    /\ UNCHANGED << data_manager, nasa_cache, info_bar, controls, appRest >>

AppNext ==
    \/ LoadGeoTIFF
    \/ ClickMap
    \/ ClearMarker
    \/ RunAnalysis
    \/ UpdateLocationName
    \/ ExportResults
    \/ MainLoop


\* ---------------------------------------------------------------------
\* Two threads calling next_fit_shelf_packing on one PackingSolver.
Threads == {1, 2}
OtherThread(t) == 3 - t

\* The argument lists the threads pass, in hundredths of a metre.
ConcurrentInputs ==
    { << 588, 400, 98, 250, None >>,
      << 338, 800, 167, 250, None >>,
      << 1000, 1600, 98, 100, Some(3) >>,
      << 1000, 1600, 98, 100, None >>,
      << 100, 400, -2, 100, None >> }

\* Where a call keeps its locals (lines 29-45): in its own frame.  Kept in
\* one place for all calls, they would be state of the object.
FrameOfObject(t) == 1
FrameOf(t) == t

NoCall == [pc |-> "idle", args |-> << >>, result |-> << >>, overlapped |-> FALSE]

\* PackingSolver.__init__ (lines 9-12), no call begun.
ConcInit ==
    /\ calls = [t \in Threads |-> NoCall]
    /\ frames = [t \in Threads |-> NoFrame]
    /\ solver = [last_execution_time |-> None, last_memory_usage |-> None]

\* The other thread is inside a call while this one takes a step.
Overlaps(t) == calls[OtherThread(t)].pc \in {"loop", "exit"}

\* Thread t begins a call (lines 14-53) with arguments other than those of
\* the call the other thread is in.
ThreadCall(t) ==
    /\ calls[t].pc = "idle"
    /\ \E args \in ConcurrentInputs \ {calls[OtherThread(t)].args} :
       \E f \in {Enter(FloatOfHundredths(args[1]), FloatOfHundredths(args[2]),
                       FloatOfHundredths(args[3]), FloatOfHundredths(args[4]),
                       args[5])} :
           /\ frames' = [frames EXCEPT ![FrameOf(t)] = f]
           /\ calls' = [calls EXCEPT ![t] =
                           [pc |-> IF InputsValid(f) THEN "loop" ELSE "returned",
                            args |-> args, result |-> << >>,
                            overlapped |-> Overlaps(t)]]
    /\ UNCHANGED << solver, concRest >>

\* One iteration of thread t's loop (lines 55-98).
ThreadIterate(t) ==
    /\ calls[t].pc = "loop"
    /\ LoopCond(frames[FrameOf(t)])
    /\ frames' = [frames EXCEPT ![FrameOf(t)] = LoopBody(frames[FrameOf(t)])]
    /\ calls' = [calls EXCEPT
                    ![t].pc = IF frames'[FrameOf(t)].broke THEN "exit" ELSE "loop",
                    ![t].overlapped = @ \/ Overlaps(t)]
    /\ UNCHANGED << solver, concRest >>

\* Thread t's loop ends at the iteration bound (line 55).
ThreadLoopEnd(t) ==
    /\ calls[t].pc = "loop"
    /\ ~LoopCond(frames[FrameOf(t)])
    /\ calls' = [calls EXCEPT ![t].pc = "exit", ![t].overlapped = @ \/ Overlaps(t)]
    /\ UNCHANGED << frames, solver, concRest >>

\* Thread t writes the performance fields and returns (lines 100-120).
ThreadReturn(t) ==
    /\ calls[t].pc = "exit"
    /\ solver' = [last_execution_time |-> Some(t), last_memory_usage |-> Some(t)]
    /\ calls' = [calls EXCEPT ![t].pc = "returned",
                              ![t].result = frames[FrameOf(t)].packed_objects_coords,
                              ![t].overlapped = @ \/ Overlaps(t)]
    /\ UNCHANGED << frames, concRest >>

\* Thread t's caller is done with the list; the frame is gone.
ThreadDiscard(t) ==
    /\ calls[t].pc = "returned"
    /\ calls' = [calls EXCEPT ![t] = NoCall]
    /\ frames' = [frames EXCEPT ![FrameOf(t)] = NoFrame]
    /\ UNCHANGED << solver, concRest >>

ConcNext ==
    \E t \in Threads :
        \/ ThreadCall(t)
        \/ ThreadIterate(t)
        \/ ThreadLoopEnd(t)
        \/ ThreadReturn(t)
        \/ ThreadDiscard(t)

\* ---------------------------------------------------------------------
\* calculate_slope_aspect_horn with its pixel_width and pixel_height
\* arguments, on small grids.
\* The pixel sizes the calls pass, in metres.
PixelSizes == {10, 30, 90}
PixelShapes == {<< 1, 2 >>, << 2, 1 >>, << 2, 2 >>}

\* The divisor of lines 41 and 46, and the one that would follow the pixel.
gradient_divisor_of_pixel(pixel_width, pixel_height) == 8 * pixel_width
gradient_divisor(pixel_width, pixel_height) == 8 * 30

\* Lines 49-50 for a divisor: slope_scale holds the divisor 8 * 30, and the
\* slope is proportional to the gradient at the gradients of the model.
SlopeDegreesOver(dx, dy, divisor) ==
    IF dx.nan \/ dy.nan THEN NaN
    ELSE Num((SlopeTable[dx.v * dx.v + dy.v * dy.v] * (8 * 30)) \div divisor)

\* Lines 13-83 with the pixel size the caller passes.
calculate_slope_aspect_horn_at(g, pixel_width, pixel_height) ==
    MaskedGrids(
        [i \in 1..NumRows(g) |-> [j \in 1..NumCols(g) |->
            SlopeAndAspect(
                SlopeDegreesOver(dz_dx(g, i, j), dz_dy(g, i, j),
                                 gradient_divisor(pixel_width, pixel_height)),
                AspectNormalized(AspectRaw(dz_dx(g, i, j), dz_dy(g, i, j))))]],
        g)

NoHornCall ==
    [pc |-> "idle", dem |-> << >>, pixel_width |-> 0, pixel_height |-> 0,
     slope |-> << >>, aspect |-> << >>,
     nodata |-> None, gray |-> None, image |-> None,
     marker |-> << >>, direction |-> ""]

\* SlopeCalculator.__init__ (lines 9-11): no call made yet.
PixelInit == horn_call = NoHornCall

\* A call of calculate_slope_aspect_horn (lines 13-83), as load_geotiff makes
\* it with the pixel size of the file (app.py:175-180).
PixelCall ==
    /\ horn_call.pc = "idle"
    /\ \E shape \in PixelShapes : \E g \in Grids(shape) :
       \E pixel_width \in PixelSizes, pixel_height \in PixelSizes :
       \E out \in {calculate_slope_aspect_horn_at(g, pixel_width, pixel_height)} :
           horn_call' = [horn_call EXCEPT !.pc = "returned", !.dem = g,
                                          !.pixel_width = pixel_width,
                                          !.pixel_height = pixel_height,
                                          !.slope = out.slope, !.aspect = out.aspect]
    /\ UNCHANGED pixelRest

\* The grids of the slope calculator in the units of the visualization:
\* slopes from 1e-8 to 1e-4 degrees, aspects from 1e-3 to 1e-4 degrees.
SlopeInDisplayUnits(slopes) ==
    [i \in 1..NumRows(slopes) |-> [j \in 1..NumCols(slopes) |->
        IF IsNaN(slopes[i][j]) THEN NaN ELSE Num(slopes[i][j].v \div 10000)]]

AspectInDisplayUnits(aspects) ==
    [i \in 1..NumRows(aspects) |-> [j \in 1..NumCols(aspects) |->
        IF IsNaN(aspects[i][j]) THEN NaN ELSE Num(aspects[i][j].v * 10)]]

\* load_geotiff passes the two grids on to create_slope_visualization with
\* the nodata_value of the file (app.py:184-189).
PixelVisualize ==
    /\ horn_call.pc = "returned"
    /\ \E nodata_value \in NodataValues, undefined_gray \in UndefinedGrays :
       \E out \in {create_slope_visualization(SlopeInDisplayUnits(horn_call.slope),
                                              AspectInDisplayUnits(horn_call.aspect),
                                              nodata_value, undefined_gray)} :
           horn_call' = [horn_call EXCEPT !.pc = "visualized", !.nodata = nodata_value,
                                          !.gray = out.gray, !.image = out.image]
    /\ UNCHANGED pixelRest

\* on_click_map puts the marker on a cell of the grid (app.py:220-227), and
\* export_results reads the aspect there and names its direction
\* (data_manager.py:62-73, export_service.py:31-32).
PixelExport ==
    /\ horn_call.pc = "visualized"
    /\ \E c \in {<< i, j >> : i \in 1..NumRows(horn_call.aspect),
                                j \in 1..NumCols(horn_call.aspect)} :
           horn_call' = [horn_call EXCEPT
               !.pc = "exported", !.marker = c,
               !.direction = get_aspect_direction(
                   AspectInDisplayUnits(horn_call.aspect)[c[1]][c[2]])]
    /\ UNCHANGED pixelRest

\* Another file is loaded.
PixelDiscard ==
    /\ horn_call.pc \in {"visualized", "exported"}
    /\ horn_call' = NoHornCall
    /\ UNCHANGED pixelRest

PixelNext == PixelCall \/ PixelVisualize \/ PixelExport \/ PixelDiscard


\* ---------------------------------------------------------------------
\* EnergyEstimator.fetch_solar_irradiance over the lru_cache of
\* _cached_nasa_call (energy_estimator.py:16-45), call after call.
\* Coordinates are in hundred-thousandths of a degree; readings are NaN or
\* numbers of hundredths.

\* The longitudes and latitudes the calls pass.
FetchLons == {12123436, 12123444, 12123446}
FetchLats == {1416504, 1416506}

\* round(x, 4) (line 43): to the nearest multiple of 10, a tie to the even one.
round4_truncated(x) == (x \div 10) * 10

round4(x) ==
    IF x % 10 < 5 THEN (x \div 10) * 10
    ELSE IF x % 10 > 5 THEN (x \div 10 + 1) * 10
    ELSE IF (x \div 10) % 2 = 0 THEN (x \div 10) * 10 ELSE (x \div 10 + 1) * 10

\* How the request of line 29 can end: an exception of urlopen or json.loads,
\* or a document whose ANN is missing, -1.00, 4.52 or NaN.
FetchResponses ==
    {[failed |-> TRUE, ANN |-> None]}
    \cup {[failed |-> FALSE, ANN |-> a] :
              a \in {None, Some(Num(-100)), Some(Num(452)), Some(NaN)}}

\* functools.lru_cache (line 16): the position of a key, the entries after a
\* hit, the entry dropped when the cache is full, the entries after a miss.
lru_index(entries, key) ==
    IF \E k \in 1..Len(entries) : entries[k].key = key
    THEN CHOOSE k \in 1..Len(entries) : entries[k].key = key
    ELSE 0

lru_touch(entries, k) ==
    [n \in 1..Len(entries) |->
        IF n < k THEN entries[n] ELSE IF n < Len(entries) THEN entries[n + 1]
        ELSE entries[k]]

lru_evict_newest(entries) ==
    IF Len(entries) < lru_maxsize THEN entries
    ELSE SubSeq(entries, 1, Len(entries) - 1)

lru_evict(entries) ==
    IF Len(entries) < lru_maxsize THEN entries ELSE Tail(entries)

lru_store(entries, key, value) ==
    Append(lru_evict(entries), [key |-> key, value |-> value])

\* Lines 33-36: value is None or value < 0 (False for NaN).
InvalidReading(response) == IsNone(response.ANN) \/ NanLess(Value(response.ANN), 0)

\* Lines 16-45: one call, for the entries of the cache, the arguments and
\* the way a request would end.
cached_nasa_call(entries, lon, lat, response) ==
    IF lru_index(entries, << lon, lat >>) # 0
    THEN [raised |-> FALSE,
          value |-> entries[lru_index(entries, << lon, lat >>)].value,
          requests |-> 0,
          entries |-> lru_touch(entries, lru_index(entries, << lon, lat >>))]
    ELSE IF response.failed \/ InvalidReading(response)
    THEN [raised |-> TRUE, value |-> NaN, requests |-> 1, entries |-> entries]
    ELSE [raised |-> FALSE, value |-> Value(response.ANN), requests |-> 1,
          entries |-> lru_store(entries, << lon, lat >>, Value(response.ANN))]

NoFetch ==
    [pc |-> "idle", lon |-> 0, lat |-> 0, raised |-> FALSE, value |-> NaN,
     requests |-> 0]

\* EnergyEstimator.__init__ (lines 11-14): the cache is empty.
FetchInit ==
    /\ lru = << >>
    /\ fetch_call = NoFetch

\* A call of fetch_solar_irradiance (lines 39-45).
FetchCall ==
    /\ \E lon \in FetchLons, lat \in FetchLats, response \in FetchResponses :
       \E out \in {cached_nasa_call(lru, round4(lon), round4(lat), response)} :
           /\ lru' = out.entries
           /\ fetch_call' = [pc |-> "returned", lon |-> lon, lat |-> lat,
                             raised |-> out.raised, value |-> out.value,
                             requests |-> out.requests]
    /\ UNCHANGED fetchRest

FetchNext == FetchCall



Init ==
    /\ PackInit /\ EnergyInit /\ SlopeInit /\ DirectionInit /\ VisInit
    /\ AppInit /\ ConcInit /\ PixelInit /\ FetchInit

Next == Call \/ Iterate \/ LoopEnd \/ Return \/ Discard

Spec == Init /\ [][Next]_vars

\* A call that was started runs on: the interpreter executes the next statement.
FairSpec == Spec /\ WF_vars(Iterate) /\ WF_vars(LoopEnd) /\ WF_vars(Return)

\* The estimator alone.
EnergySpec == Init /\ [][EnergyNext]_vars

\* The slope calculator alone.
SlopeSpec == Init /\ [][SlopeNext]_vars

\* The compass labels alone.
DirectionSpec == Init /\ [][DirectionNext]_vars

\* The visualization alone.
VisSpec == Init /\ [][VisNext]_vars

\* The events of the application, in any order.
AppSpec == Init /\ [][AppNext]_vars

\* Two threads calling the packer of one PackingSolver, in any interleaving.
ConcSpec == Init /\ [][ConcNext]_vars

\* The slope calculator called with a pixel size.
PixelSpec == Init /\ [][PixelNext]_vars

\* The irradiance fetch over its cache.
FetchSpec == Init /\ [][FetchNext]_vars

\* ------------------------------------------------------ packer: claims
\* The edges of a rectangle, as the program's arithmetic gives them.
Right(r) == FloatAdd(r.x, r.w)
Bottom(r) == FloatAdd(r.y, r.h)

InsideLand(r, f) ==
    /\ r.w = f.obj_width_m /\ r.h = f.obj_height_m
    /\ 0 <= r.x /\ Right(r) <= f.land_width_m
    /\ 0 <= r.y /\ Bottom(r) <= f.land_height_m

InteriorsDisjoint(a, b) ==
    \/ Right(a) <= b.x \/ Right(b) <= a.x
    \/ Bottom(a) <= b.y \/ Bottom(b) <= a.y

\* C1: every rectangle a call returns lies inside the land, 0 <= x,
\* x + (w+0.02) <= W, 0 <= y, y + (h+1.5) <= H, and no two returned rectangles
\* overlap in their interiors.
C1_InsideLandAndDisjoint ==
    pc = "returned" =>
        /\ \A i \in 1..Len(result) : InsideLand(result[i], frame)
        /\ \A i, j \in 1..Len(result) :
               i < j => InteriorsDisjoint(result[i], result[j])

\* A call returned rectangles on two shelves, the first shelf holding several.
C1_Witness ==
    /\ pc = "returned"
    /\ Len(result) >= 4
    /\ result[1].y = result[2].y
    /\ result[Len(result)].y > result[1].y

\* floor(x) of a float, as an integer.
Floor(x) == x \div One

\* floor(W/ew) and floor(H/eh), computed as the program's arithmetic does.
GridCols(f) == Floor(FloatDiv(f.land_width_m, f.obj_width_m))
GridRows(f) == Floor(FloatDiv(f.land_height_m, f.obj_height_m))

\* C2: with no requested count, a footprint that passes the guard and
\* c*r = floor(W/ew)*floor(H/eh) below the iteration bound, a call returns
\* exactly c*r rectangles, the k-th (from 0) at x = (k mod c)*ew,
\* y = (k div c)*eh with size (ew, eh).
C2_RowMajorGrid ==
    (/\ pc = "returned"
     /\ IsNone(frame.num_objects_to_pack)
     /\ InputsValid(frame)
     /\ GridCols(frame) * GridRows(frame) < max_packing_iterations)
    => LET c == GridCols(frame)
           r == GridRows(frame)
       IN  /\ Len(result) = c * r
           /\ \A k \in 0..(Len(result) - 1) :
                  result[k + 1] =
                      [x |-> FloatMul(FloatOfInt(k % c), frame.obj_width_m),
                       y |-> FloatMul(FloatOfInt(k \div c), frame.obj_height_m),
                       w |-> frame.obj_width_m, h |-> frame.obj_height_m]

\* C2, the count alone.
C2_Count ==
    (/\ pc = "returned"
     /\ IsNone(frame.num_objects_to_pack)
     /\ InputsValid(frame)
     /\ GridCols(frame) * GridRows(frame) < max_packing_iterations)
    => Len(result) = GridCols(frame) * GridRows(frame)

Min(a, b) == IF a <= b THEN a ELSE b

\* The list the same land and panel give with num_objects_to_pack = None.
UnboundedResult(f) ==
    RunLoop([f EXCEPT !.num_objects_to_pack = None, !.packed_objects_coords = << >>,
                      !.current_x_m = 0, !.shelf_bottom_y_m = 0,
                      !.objects_placed = 0, !.iter_count = 0,
                      !.broke = FALSE]).packed_objects_coords

\* C3: the result for a requested count k is the first min(k, N) rectangles, in
\* order, of the result for None on the same land and panel (N its length), and
\* never holds more than k rectangles.
C3_PrefixOfUnbounded ==
    (pc = "returned" /\ ~IsNone(frame.num_objects_to_pack) /\ InputsValid(frame))
    => LET k == Value(frame.num_objects_to_pack)
           all == UnboundedResult(frame)
       IN  /\ Len(result) <= k
           /\ result = SubSeq(all, 1, Min(k, Len(all)))

\* A call with a positive count below what fits returned exactly that many.
C3_Witness ==
    /\ pc = "returned"
    /\ ~IsNone(frame.num_objects_to_pack)
    /\ Value(frame.num_objects_to_pack) >= 1
    /\ Len(result) = Value(frame.num_objects_to_pack)
    /\ Len(UnboundedResult(frame)) > Len(result)

Degenerate(f) ==
    \/ f.obj_width_m <= 0 \/ f.obj_height_m <= 0
    \/ f.obj_width_m > f.land_width_m \/ f.obj_height_m > f.land_height_m

\* C4: a footprint with a width or height <= 0, or wider or taller than the
\* land, makes the call return the empty list at once; a footprint equal to a
\* land dimension is not rejected: the loop runs and, unless 0 objects were
\* requested, places a rectangle.
C4_DegenerateReturnsEmpty ==
    /\ (pc = "returned" /\ Degenerate(frame))
           => (result = << >> /\ frame.iter_count = 0)
    /\ Degenerate(frame) => pc \in {"idle", "returned"}
    /\ (/\ pc = "returned" /\ ~Degenerate(frame)
        /\ frame.num_objects_to_pack # Some(0))
           => Len(result) >= 1

\* A footprint wider than the land came back with the empty list.
C4_Witness ==
    /\ pc = "returned"
    /\ frame.obj_width_m > 0 /\ frame.obj_height_m > 0
    /\ frame.obj_width_m > frame.land_width_m
    /\ result = << >>

\* A footprint exactly as wide as the land was placed.
C4_EqualWidthPlaced ==
    /\ pc = "returned"
    /\ frame.obj_width_m = frame.land_width_m
    /\ Len(result) >= 1

\* C5: every call terminates: the loop runs at most max_packing_iterations
\* iterations, each iteration records exactly one rectangle or ends the loop,
\* and when the bound stops the loop the rectangles placed so far are what the
\* call returns.
C5_IterationsBounded ==
    /\ frame.iter_count <= max_packing_iterations
    /\ frame.objects_placed = Len(frame.packed_objects_coords)
    /\ frame.objects_placed <= frame.iter_count
    /\ (pc = "returned" /\ InputsValid(frame) /\ ~frame.broke)
           => /\ frame.iter_count = max_packing_iterations
              /\ result = frame.packed_objects_coords
              /\ Len(result) = max_packing_iterations

C5_IterationStep ==
    (pc = "loop" /\ frame' # frame)
    => /\ frame'.iter_count = frame.iter_count + 1
       /\ \/ /\ pc' = "loop"
             /\ Len(frame'.packed_objects_coords) = Len(frame.packed_objects_coords) + 1
             /\ SubSeq(frame'.packed_objects_coords, 1, Len(frame.packed_objects_coords))
                    = frame.packed_objects_coords
          \/ /\ pc' = "exit"
             /\ frame'.packed_objects_coords = frame.packed_objects_coords

C5_Terminates ==
    /\ []C5_IterationsBounded
    /\ [][C5_IterationStep]_vars
    /\ (pc = "loop") ~> (pc = "returned")

\* The iteration bound, not a break, ended the loop of a call that returned.
C5_Witness ==
    /\ pc = "returned"
    /\ InputsValid(frame)
    /\ ~frame.broke
    /\ frame.iter_count = max_packing_iterations
    /\ Len(result) = max_packing_iterations

\* C21: the max-iterations warning is emitted if and only if the iteration
\* bound cut the loop off; a loop that ended because space ran out or the
\* requested count was reached emits none, even on the last allowed iteration.
C21_WarningIffCutOff ==
    pc = "returned" => (warned <=> (InputsValid(frame) /\ ~frame.broke))

\* The case of C21 the program gets wrong: the land holds fewer rectangles
\* than the bound, the loop ends for want of space on the last allowed
\* iteration, and the warning is emitted.
C21_WarnedAtNaturalStop ==
    /\ pc = "returned"
    /\ frame.broke
    /\ frame.iter_count = max_packing_iterations
    /\ Len(result) = max_packing_iterations - 1
    /\ warned

\* ---------------------------------------------------- estimator: claims
InEnergyDomain(a) ==
    /\ a.num_panels >= 0 /\ a.panel_area_m2 > 0
    /\ 0 < a.panel_efficiency /\ a.panel_efficiency <= One
    /\ 0 < a.performance_ratio /\ a.performance_ratio <= One
    /\ a.avg_daily_irradiance_kwh_m2 >= 0

\* C6: calculate_energy_production(n, A, e, p, I) returns daily = I*A*e*p*n,
\* annual = daily*365 and total area = n*A; all three are 0 for n = 0 and >= 0
\* for in-domain inputs, and the annual energy for 2n is twice that for n.
C6_EnergyFormula ==
    energy_pc = "returned" =>
        LET a == energy_args
            d == energy_data
            n == FloatOfInt(a.num_panels)
            twice == calculate_energy_production(
                         2 * a.num_panels, a.panel_area_m2, a.panel_efficiency,
                         a.performance_ratio, a.avg_daily_irradiance_kwh_m2)
        IN  /\ d.daily_energy_kwh =
                   FloatMul(FloatMul(FloatMul(FloatMul(
                       a.avg_daily_irradiance_kwh_m2, a.panel_area_m2),
                       a.panel_efficiency), a.performance_ratio), n)
            /\ d.annual_energy_kwh = FloatMul(d.daily_energy_kwh, FloatOfInt(365))
            /\ d.total_panel_area_m2 = FloatMul(n, a.panel_area_m2)
            /\ a.num_panels = 0 =>
                   /\ d.daily_energy_kwh = 0 /\ d.annual_energy_kwh = 0
                   /\ d.total_panel_area_m2 = 0
            /\ InEnergyDomain(a) =>
                   /\ d.daily_energy_kwh >= 0 /\ d.annual_energy_kwh >= 0
                   /\ d.total_panel_area_m2 >= 0
            /\ twice.annual_energy_kwh = 2 * d.annual_energy_kwh

\* An in-domain call with several panels returned a positive annual energy.
C6_Witness ==
    /\ energy_pc = "returned"
    /\ InEnergyDomain(energy_args)
    /\ energy_args.num_panels >= 2
    /\ energy_data.annual_energy_kwh > energy_data.daily_energy_kwh
    /\ energy_data.daily_energy_kwh > 0

\* C7: every cell whose source elevation is NaN is NaN in both outputs,
\* whatever its neighbours hold and whatever lines 38-60 had put there; an
\* all-NaN grid therefore gives all-NaN outputs.
C7_NanSourceGivesNan ==
    slope_pc = "returned" =>
        \A i \in 1..NumRows(dem), j \in 1..NumCols(dem) :
            IsNaN(dem[i][j]) => IsNaN(slope_deg[i][j]) /\ IsNaN(aspect_deg[i][j])

\* A missing cell whose neighbours are all present and level: line 60 had put
\* the flat sentinel there, and the call returned NaN in both outputs.
C7_Witness ==
    /\ slope_pc = "returned"
    /\ \E i \in 1..NumRows(dem), j \in 1..NumCols(dem) :
          /\ IsNaN(dem[i][j])
          /\ BeforeMask(dem, i, j).aspect = Num(flat_sentinel)
          /\ BeforeMask(dem, i, j).slope = Num(0)
          /\ IsNaN(slope_deg[i][j]) /\ IsNaN(aspect_deg[i][j])

\* C8: a cell of slope_degrees is NaN if and only if the source cell is NaN,
\* and likewise for aspect_degrees: a present cell next to a missing one gets
\* numbers.
C8_NanIffSourceNan ==
    slope_pc = "returned" =>
        \A i \in 1..NumRows(dem), j \in 1..NumCols(dem) :
            /\ IsNaN(slope_deg[i][j]) <=> IsNaN(dem[i][j])
            /\ IsNaN(aspect_deg[i][j]) <=> IsNaN(dem[i][j])

ConstantGrid(g) ==
    \E c \in 0..MaxElev :
        \A i \in 1..NumRows(g), j \in 1..NumCols(g) : g[i][j] = Num(c)

\* C9: at every present cell the aspect is -1 if and only if the slope is
\* below 1e-6 degree; a constant grid of any shape has slope 0 and aspect -1
\* at every cell, border cells included.
C9_FlatIffBelowThreshold ==
    slope_pc = "returned" =>
        /\ \A i \in 1..NumRows(dem), j \in 1..NumCols(dem) :
              ~IsNaN(dem[i][j]) =>
                  (aspect_deg[i][j] = Num(flat_sentinel)
                       <=> NanLess(slope_deg[i][j], flat_threshold))
        /\ ConstantGrid(dem) =>
              \A i \in 1..NumRows(dem), j \in 1..NumCols(dem) :
                  slope_deg[i][j] = Num(0) /\ aspect_deg[i][j] = Num(flat_sentinel)

\* A present cell on a gradient that is not zero but below the threshold
\* carries the sentinel, next to a cell steep enough to carry a bearing.
C9_Witness ==
    /\ slope_pc = "returned"
    /\ \E i \in 1..NumRows(dem), j \in 1..NumCols(dem) :
          /\ ~IsNaN(dem[i][j])
          /\ ~IsNaN(slope_deg[i][j]) /\ slope_deg[i][j].v > 0
          /\ slope_deg[i][j].v < flat_threshold
          /\ aspect_deg[i][j] = Num(flat_sentinel)
    /\ \E i \in 1..NumRows(dem), j \in 1..NumCols(dem) :
          /\ ~IsNaN(slope_deg[i][j]) /\ slope_deg[i][j].v >= flat_threshold
          /\ ~IsNaN(aspect_deg[i][j]) /\ aspect_deg[i][j].v >= 0

NoMissingNeighbour(g, i, j) ==
    \A di \in -1..1, dj \in -1..1 : ~IsNaN(Padded(g, i + di, j + dj))

\* The compass bearing of the downhill direction: the terrain falls toward
\* the west where it rises eastward (dz_dx > 0) and toward the north where it
\* rises southward (dz_dy > 0).
DownhillBearing(dx, dy) == AspectNormalized(Num(Arctan2Degrees(0 - dx.v, dy.v)))

\* C10: at every cell that is not flat and has no missing neighbour the aspect
\* is the compass bearing of the downhill direction (rising east gives 270,
\* rising west 90, rising south 0, rising north 180).
C10_AspectIsDownhillBearing ==
    slope_pc = "returned" =>
        \A i \in 1..NumRows(dem), j \in 1..NumCols(dem) :
            (NoMissingNeighbour(dem, i, j) /\ ~NanLess(slope_deg[i][j], flat_threshold))
                => aspect_deg[i][j] = DownhillBearing(dz_dx(dem, i, j), dz_dy(dem, i, j))

CompassLabels == << "N", "NE", "E", "SE", "S", "SW", "W", "NW" >>

\* The label of the half-open 45-degree bin, centred on a compass direction,
\* that holds v (ten-thousandths of a degree, 0 <= v < 360 degrees).
Octant(v) == CompassLabels[(((v + Tenths(225)) % Tenths(3600)) \div Tenths(450)) + 1]

\* C11: for every d in [0, 360) get_aspect_direction returns the label of the
\* half-open 45-degree bin centred on a compass direction that holds d
\* (22.4999 gives N, 22.5 gives NE); the sentinel -1 gives "Flat".
C11_OctantLabel ==
    (direction_pc = "returned" /\ ~IsNaN(direction_degrees)) =>
        /\ ((direction_degrees.v >= 0 /\ direction_degrees.v < Tenths(3600))
               => direction_label = Octant(direction_degrees.v))
        /\ (direction_degrees.v = -10000 => direction_label = "Flat")

\* The call with 22.4999 returned N (the call with 22.5 returns NE).
C11_Witness ==
    /\ direction_pc = "returned"
    /\ direction_degrees = Num(Tenths(225) - 1)
    /\ direction_label = "N"
    /\ get_aspect_direction(Num(Tenths(225))) = "NE"

\* C12: every input outside [0, 360) other than the sentinel -1 (360, 400,
\* -5) gets the fallback label, neither a compass direction nor "Flat".
C12_OutOfRangeGivesFallback ==
    (direction_pc = "returned" /\ ~IsNaN(direction_degrees)) =>
        (((direction_degrees.v < 0 \/ direction_degrees.v >= Tenths(3600))
            /\ direction_degrees.v # -10000)
            => direction_label = "N/A")

VisCellsOf(g) == {<< i, j >> : i \in 1..NumRows(g), j \in 1..NumCols(g)}

\* C13: in every image returned, with or without a nodata_value, the alpha of
\* a cell is 0 exactly when the input slope there is NaN and 255 elsewhere.
C13_AlphaMarksNan ==
    (vis_pc = "returned" /\ vis_image # None) =>
        \A c \in VisCellsOf(vis_slope) :
            /\ (vis_image[c[1]][c[2]].a = 0 <=> IsNaN(vis_slope[c[1]][c[2]]))
            /\ (~IsNaN(vis_slope[c[1]][c[2]]) => vis_image[c[1]][c[2]].a = 255)

\* An image made with a nodata_value that has a missing cell and a present one.
C13_Witness ==
    /\ vis_pc = "returned" /\ vis_image # None /\ vis_nodata # None
    /\ \E c \in VisCellsOf(vis_slope) :
          IsNaN(vis_slope[c[1]][c[2]]) /\ vis_image[c[1]][c[2]].a = 0
    /\ \E c \in VisCellsOf(vis_slope) :
          ~IsNaN(vis_slope[c[1]][c[2]]) /\ vis_image[c[1]][c[2]].a = 255

IsOptimal(slope, aspect) ==
    /\ slope.v < 50000
    /\ ~IsNaN(aspect) /\ aspect.v >= 1125000 /\ aspect.v <= 2475000
IsSuboptimal(slope, aspect) ==
    /\ slope.v < 50000
    /\ (IsNaN(aspect) \/ aspect.v < 1125000 \/ aspect.v > 2475000)
IsUnsuitable(slope) == slope.v >= 50000

Min255(tenths) == IF tenths >= 2560 THEN 255 ELSE tenths \div 10

\* C14: a cell with non-NaN slope and base brightness g is coloured by exactly
\* one rule: optimal (slope < 5, 112.5 <= aspect <= 247.5) gets
\* (0.3g, min(255, 0.7g+100), 0.3g), suboptimal (slope < 5, aspect outside the
\* band) gets (min(255, 0.9g+100), min(255, 0.8g+100), 0.3g), unsuitable
\* (slope >= 5) gets (g, g, g); every channel is within 0..255.
C14_ColourRules ==
    (vis_pc = "returned" /\ vis_image # None) =>
        \A c \in VisCellsOf(vis_slope) :
            LET slope == vis_slope[c[1]][c[2]]
                aspect == vis_aspect[c[1]][c[2]]
                g == vis_gray[c[1]][c[2]]
                px == vis_image[c[1]][c[2]]
            IN  ~IsNaN(slope) =>
                  /\ IsOptimal(slope, aspect) =>
                        (px.r = (3 * g) \div 10 /\ px.g = Min255(7 * g + 1000)
                            /\ px.b = (3 * g) \div 10)
                  /\ IsSuboptimal(slope, aspect) =>
                        (px.r = Min255(9 * g + 1000) /\ px.g = Min255(8 * g + 1000)
                            /\ px.b = (3 * g) \div 10)
                  /\ IsUnsuitable(slope) => (px.r = g /\ px.g = g /\ px.b = g)
                  /\ Cardinality({k \in 1..3 :
                        \/ k = 1 /\ IsOptimal(slope, aspect)
                        \/ k = 2 /\ IsSuboptimal(slope, aspect)
                        \/ k = 3 /\ IsUnsuitable(slope)}) = 1
                  /\ {px.r, px.g, px.b, px.a} \subseteq 0..255

\* One image holds a cell of each rule: optimal at the band's upper bound
\* 247.5 with a clipped green, suboptimal, and unsuitable at slope 5 itself.
C14_Witness ==
    /\ vis_pc = "returned" /\ vis_image # None
    /\ \E c \in VisCellsOf(vis_slope) :
          /\ vis_slope[c[1]][c[2]] = Num(25000) /\ vis_aspect[c[1]][c[2]] = Num(2475000)
          /\ vis_gray[c[1]][c[2]] > 0
          /\ vis_image[c[1]][c[2]].g > vis_image[c[1]][c[2]].r
    /\ \E c \in VisCellsOf(vis_slope) :
          /\ ~IsNaN(vis_slope[c[1]][c[2]])
          /\ IsSuboptimal(vis_slope[c[1]][c[2]], vis_aspect[c[1]][c[2]])
          /\ vis_image[c[1]][c[2]].r >= 100
    /\ \E c \in VisCellsOf(vis_slope) :
          /\ vis_slope[c[1]][c[2]] = Num(50000)
          /\ vis_image[c[1]][c[2]].r = vis_image[c[1]][c[2]].b

\* No cell holds valid data: every cell is NaN or the no-data sentinel.
NoValidData(slopes) ==
    \A c \in VisCellsOf(slopes) :
        IsNaN(slopes[c[1]][c[2]]) \/ slopes[c[1]][c[2]].v = -99990000

\* C15: create_slope_visualization returns None whenever no cell of the slope
\* grid holds valid data, whether or not a nodata_value is passed; otherwise
\* it returns an image of shape (rows, cols, 4).
C15_NoneIffNoValidData ==
    vis_pc = "returned" =>
        IF NoValidData(vis_slope) THEN vis_image = None
        ELSE /\ vis_image # None
             /\ Len(vis_image) = NumRows(vis_slope)
             /\ \A i \in 1..Len(vis_image) :
                   /\ Len(vis_image[i]) = NumCols(vis_slope)
                   /\ \A j \in 1..Len(vis_image[i]) :
                         DOMAIN vis_image[i][j] = {"r", "g", "b", "a"}

\* The handler that is returning ran the analysis and the irradiance fetch
\* raised in it.
FetchFailed ==
    /\ app_event.kind = "analysis"
    /\ app_event.dialog = "Energy Calculation Error"

\* A value a completed analysis stores as an energy: a number >= 0.
LegitimateEnergy(kwh) == kwh >= 0

\* C16: after a run of the analysis in which the irradiance fetch fails, the
\* energies the application stores, shows in the info bar and writes to the
\* export cannot be taken for a legitimate result: they are not a number
\* >= 0 such as 0.0 or the figures an earlier analysis left.
C16_FailedFetchIsDistinguishable ==
    FetchFailed =>
        /\ ~LegitimateEnergy(data_manager.annual_energy_kwh)
        /\ ~LegitimateEnergy(data_manager.daily_energy_kwh)
        /\ ~LegitimateEnergy(info_bar.info_annual_energy)
        /\ ~LegitimateEnergy(ExportRow(data_manager).Annual_Energy_kWh)

\* The two cases of C16 as the program runs them: a failed fetch leaves 0.0
\* beside the new panel count, or the figures of an earlier analysis.
C16_ZeroBesideNewCount ==
    /\ FetchFailed
    /\ data_manager.num_panels_packed = 5
    /\ data_manager.annual_energy_kwh = 0
    /\ info_bar.info_panels_count = 5 /\ info_bar.info_annual_energy = 0
C16_EarlierFiguresBesideNewCount ==
    /\ FetchFailed
    /\ data_manager.num_panels_packed = 2
    /\ data_manager.annual_energy_kwh =
           calculate_energy_production(
               5, Packed[BaseForm].panel_area_m2.v,
               FloatDiv(FloatOfInt(18), FloatOfInt(100)), FloatOfHundredths(80),
               FloatOfHundredths(452)).annual_energy_kwh
    /\ info_bar.info_panels_count = 2 /\ info_bar.info_annual_energy > 0

\* The handler that is returning asked for the place name and the request
\* failed: a status other than 200, or an exception (network error, timeout,
\* malformed response).
GeocodeFailed ==
    /\ app_event.kind = "location"
    /\ app_event.requests \in {<< "not 200" >>, << "exception" >>}

\* C17: when the reverse-geocode request fails, update_location_name gets
\* an explicit failure (it shows its error dialog) and leaves
\* data_manager.location_name at the value it had before the request.
C17_FailedGeocodeKeepsName ==
    [][GeocodeFailed' =>
           /\ data_manager'.location_name = data_manager.location_name
           /\ app_event'.dialog # ""]_vars

\* The fields run_packing_and_energy_simulation is to check for a form, by
\* the names its messages give them, and the text each holds.
CheckedFields(form) ==
    {"Land width/area", "Panel width", "Panel height", "Panel efficiency",
     "Performance ratio"}
    \cup (IF form.land_unit = "meters" THEN {"Land height"} ELSE {})
    \cup (IF form.pack_mode = "specify" THEN {"Number of objects"} ELSE {})
FieldText(form, field_name) ==
    CASE field_name = "Land width/area" -> form.entry_land_width
      [] field_name = "Land height" -> form.entry_land_height
      [] field_name = "Panel width" -> form.entry_obj_width
      [] field_name = "Panel height" -> form.entry_obj_height
      [] field_name = "Number of objects" -> form.entry_num_objects
      [] field_name = "Panel efficiency" -> form.entry_panel_efficiency
      [] field_name = "Performance ratio" -> form.entry_perf_ratio

\* The text is a decimal number > 0 and at most limit hundredths ("nan",
\* "abc" and "" are no numbers).
PositiveUpTo(text, limit) ==
    text \in DOMAIN FloatTexts /\ FloatTexts[text] > 0 /\ FloatTexts[text] <= limit
\* The field is non-numeric, non-positive or out of range.
BadField(form, field_name) ==
    CASE field_name = "Number of objects" ->
             ~(PositiveUpTo(FieldText(form, field_name), 100000)
               /\ FloatTexts[FieldText(form, field_name)] % 100 = 0)
      [] field_name = "Panel efficiency" ->
             ~PositiveUpTo(FieldText(form, field_name), 10000)
      [] field_name = "Performance ratio" ->
             ~PositiveUpTo(FieldText(form, field_name), 100)
      [] OTHER -> ~PositiveUpTo(FieldText(form, field_name), 100000)
BadFields(form) == {field_name \in CheckedFields(form) : BadField(form, field_name)}

\* The handler that is returning ran the analysis as far as the validation
\* of the form: a marker was set and a file loaded.
ValidationReached ==
    /\ app_event.kind = "analysis"
    /\ app_event.dialog \notin {"Please click on the map to set a marker first.",
                                "Please load a GeoTIFF file first."}

\* C18: run_packing_and_energy_simulation checks every input field and
\* collects exactly one message for each field that is non-numeric,
\* non-positive or out of range; when a message was collected, neither the
\* Packer, the irradiance fetch nor the Estimator is invoked and no stored
\* result changes.
C18_OneMessagePerBadField ==
    /\ [](ValidationReached =>
             /\ {app_event.errors[k][1] : k \in 1..Len(app_event.errors)}
                    = BadFields(app_event.form)
             /\ Len(app_event.errors) = Cardinality(BadFields(app_event.form))
             /\ (BadFields(app_event.form) # {} =>
                    app_event.invoked = << >> /\ app_event.requests = << >>))
    /\ [][(ValidationReached' /\ BadFields(app_event'.form) # {}) =>
              (data_manager' = data_manager /\ nasa_cache' = nasa_cache)]_vars

\* The case of C18 the program gets wrong: the land width "nan" draws no
\* message, the Packer runs and a NaN land area is stored and shown.
C18_NanWidthAccepted ==
    /\ ValidationReached
    /\ app_event.form.entry_land_width = "nan"
    /\ app_event.errors = << >>
    /\ app_event.invoked = << "packer" >>
    /\ IsNaN(data_manager.land_area_m2)
    /\ IsNaN(info_bar.info_land_size)
\* The cases it gets right: several bad fields give one message each, in
\* the order of the fields, and nothing is invoked.
C18_ThreeMessages ==
    /\ ValidationReached
    /\ app_event.errors = << << "Land width/area", "must be a valid number" >>,
                             << "Land height", "must be positive" >>,
                             << "Panel efficiency", "must be between 0 and 100" >> >>
    /\ app_event.invoked = << >>

\* The handler invoked the Packer, the irradiance fetch or the Estimator.
CoreInvoked(event) ==
    \E k \in 1..Len(event.invoked) : event.invoked[k] \in {"packer", "fetch", "estimator"}

\* A marker is set and elevation data is loaded.
MarkerAndData ==
    /\ ~IsNone(data_manager.marker_pixel_coords)
    /\ ~IsNone(data_manager.slope_degrees)

\* C19: whatever events came before, the Packer, the irradiance fetch and
\* the Estimator are invoked only by a handler that found a marker set and
\* elevation data loaded; without them run_packing_and_energy_simulation
\* reports an error, invokes nothing and leaves every stored value, the
\* cache and the display unchanged.
C19_CoreNeedsMarkerAndData ==
    [][/\ CoreInvoked(app_event') => MarkerAndData
       /\ (app_event'.kind = "analysis" /\ ~MarkerAndData) =>
              /\ app_event'.dialog \in
                     {"Please click on the map to set a marker first.",
                      "Please load a GeoTIFF file first."}
              /\ app_event'.invoked = << >> /\ app_event'.requests = << >>
              /\ data_manager' = data_manager /\ nasa_cache' = nasa_cache
              /\ info_bar' = info_bar /\ controls' = controls]_vars

\* An analysis was refused for want of a marker while a file was loaded and
\* the results of an earlier analysis were still stored (the marker was
\* lost to a failed coordinate conversion).
C19_Witness ==
    /\ app_event.kind = "analysis"
    /\ app_event.dialog = "Please click on the map to set a marker first."
    /\ ~IsNone(data_manager.slope_degrees)
    /\ IsNone(data_manager.marker_pixel_coords)
    /\ data_manager.num_panels_packed = 5
    /\ data_manager.annual_energy_kwh > 0

\* The list a call with these arguments returns when it runs alone on a
\* PackingSolver that has made no call before.
AloneResult(args) ==
    next_fit_shelf_packing(FloatOfHundredths(args[1]), FloatOfHundredths(args[2]),
                           FloatOfHundredths(args[3]), FloatOfHundredths(args[4]),
                           args[5])

\* C20: when calls of next_fit_shelf_packing with distinct inputs interleave
\* on one PackingSolver, in any order and after any earlier calls, each
\* returns exactly the list it returns when run alone.
C20_InterleavedCallsIndependent ==
    \A t \in Threads :
        calls[t].pc = "returned" => calls[t].result = AloneResult(calls[t].args)

\* Both threads have returned from calls that overlapped, with different
\* non-empty lists, on an object that had already made a call.
C20_Witness ==
    /\ \A t \in Threads :
          /\ calls[t].pc = "returned"
          /\ calls[t].overlapped
          /\ calls[t].result # << >>
    /\ calls[1].result # calls[2].result
    /\ ~IsNone(solver.last_execution_time)

\* C22: the slope and aspect calculate_slope_aspect_horn returns do not
\* depend on pixel_width and pixel_height: a call on the same grid with any
\* other pixel size returns the same two grids, those of the divisor 8 * 30.
C22_PixelSizeIgnored ==
    horn_call.pc = "returned" =>
        /\ \A pixel_width \in PixelSizes, pixel_height \in PixelSizes :
              calculate_slope_aspect_horn_at(horn_call.dem, pixel_width, pixel_height)
                  = [slope |-> horn_call.slope, aspect |-> horn_call.aspect]
        /\ calculate_slope_aspect_horn(horn_call.dem)
               = [slope |-> horn_call.slope, aspect |-> horn_call.aspect]

\* A call with 10 m pixels on a grid that slopes returned a slope above 0.
C22_Witness ==
    /\ horn_call.pc = "returned"
    /\ horn_call.pixel_width = 10 /\ horn_call.pixel_height = 90
    /\ \E i \in 1..Len(horn_call.slope) : \E j \in 1..Len(horn_call.slope[i]) :
          ~IsNaN(horn_call.slope[i][j]) /\ horn_call.slope[i][j].v > 0

\* C23: in every image returned, a cell whose aspect is NaN while its slope
\* is a number is plain grayscale, its three channels equal to its
\* brightness, whatever its slope.
C23_NanAspectIsGrayscale ==
    (vis_pc = "returned" /\ vis_image # None) =>
        \A c \in VisCellsOf(vis_slope) :
            (IsNaN(vis_aspect[c[1]][c[2]]) /\ ~IsNaN(vis_slope[c[1]][c[2]])) =>
                /\ vis_image[c[1]][c[2]].r = vis_gray[c[1]][c[2]]
                /\ vis_image[c[1]][c[2]].g = vis_gray[c[1]][c[2]]
                /\ vis_image[c[1]][c[2]].b = vis_gray[c[1]][c[2]]

\* The slopes of the cells that hold data: numbers other than the sentinel.
DataSlopes(slopes) ==
    {slopes[c[1]][c[2]].v : c \in {d \in VisCellsOf(slopes) :
        ~IsNaN(slopes[d[1]][d[2]]) /\ slopes[d[1]][d[2]] # Num(nodata_sentinel)}}

MinMaxScaled(v, numbers) ==
    IF SetMax(numbers) = SetMin(numbers) THEN 0
    ELSE ((v - SetMin(numbers)) * 255) \div (SetMax(numbers) - SetMin(numbers))

\* C24: in every image returned, with or without a nodata_value, the
\* brightness of a cell that holds data is the min-max scaling of its slope
\* over the cells that hold data, floor(255 * (s - min) / (max - min)), 0 when
\* all of them are equal, and the brightness of every no-data cell (NaN or
\* the sentinel) is 0.
C24_BrightnessIsMinMaxScaling ==
    (vis_pc = "returned" /\ vis_gray # None) =>
        \A c \in VisCellsOf(vis_slope) :
            IF IsNaN(vis_slope[c[1]][c[2]]) \/ vis_slope[c[1]][c[2]] = Num(nodata_sentinel)
            THEN vis_gray[c[1]][c[2]] = 0
            ELSE vis_gray[c[1]][c[2]]
                    = MinMaxScaled(vis_slope[c[1]][c[2]].v, DataSlopes(vis_slope))

\* C30: every cell calculate_slope_aspect_horn marks flat (aspect -1) is
\* drawn by create_slope_visualization with the tint of the suboptimal class,
\* (min(255, 0.9g+100), min(255, 0.8g+100), 0.3g) for its brightness g, and
\* not with the tint of the optimal class.
C30_FlatIsSuboptimal ==
    (horn_call.pc = "visualized" /\ horn_call.image # None) =>
        \A c \in VisCellsOf(horn_call.aspect) :
            horn_call.aspect[c[1]][c[2]] = Num(flat_sentinel) =>
                /\ horn_call.image[c[1]][c[2]]
                      = [r |-> ClipTenths(9 * horn_call.gray[c[1]][c[2]] + 1000),
                         g |-> ClipTenths(8 * horn_call.gray[c[1]][c[2]] + 1000),
                         b |-> ClipTenths(3 * horn_call.gray[c[1]][c[2]]),
                         a |-> 255]
                /\ horn_call.image[c[1]][c[2]].r
                      # ClipTenths(3 * horn_call.gray[c[1]][c[2]])

\* An image of a grid with a flat cell beside a cell that faces south.
C30_Witness ==
    /\ horn_call.pc = "visualized" /\ horn_call.image # None
    /\ \E c \in VisCellsOf(horn_call.aspect) :
          /\ horn_call.aspect[c[1]][c[2]] = Num(flat_sentinel)
          /\ horn_call.image[c[1]][c[2]].r >= 100
    /\ \E c \in VisCellsOf(horn_call.aspect) :
          /\ ~IsNaN(horn_call.aspect[c[1]][c[2]])
          /\ horn_call.aspect[c[1]][c[2]].v >= 112500
          /\ horn_call.aspect[c[1]][c[2]].v <= 247500
          /\ horn_call.image[c[1]][c[2]].g >= 100
          /\ horn_call.image[c[1]][c[2]].r < 100

\* C25: the direction the export names for the aspect calculate_slope_aspect_horn
\* put in the cell of the marker is "Flat" or one of the eight compass
\* labels, never "N/A".
C25_EngineAspectHasDirection ==
    horn_call.pc = "exported" =>
        \/ horn_call.direction = "Flat"
        \/ \E k \in 1..Len(CompassLabels) : horn_call.direction = CompassLabels[k]

\* The cells of numeric aspect do get a label: a flat one and a compass one.
C25_NumericAspectLabelled ==
    /\ horn_call.pc = "exported"
    /\ ~IsNaN(horn_call.aspect[horn_call.marker[1]][horn_call.marker[2]])
    /\ horn_call.direction = "S"

\* C28: in every state of the application a stored panel count of 0 goes
\* with stored energies of 0: num_panels_packed = 0 implies
\* annual_energy_kwh = 0 and daily_energy_kwh = 0.
C28_NoPanelsNoEnergy ==
    data_manager.num_panels_packed = 0 =>
        (data_manager.annual_energy_kwh = 0 /\ data_manager.daily_energy_kwh = 0)

\* The case of C28 as the program runs it: an analysis in which no panel fits
\* has stored 0 panels beside the energies of the analysis before it.
C28_StaleEnergyBesideZeroPanels ==
    /\ app_event.kind = "analysis" /\ app_event.invoked = << "packer" >>
    /\ data_manager.num_panels_packed = 0
    /\ data_manager.annual_energy_kwh > 0
    /\ controls.lbl_annual_energy = "0 kWh"
    /\ info_bar.info_panels_count = 0 /\ info_bar.info_annual_energy > 0

\* on_click_map has put the marker at a position.
MarkerPlaced ==
    /\ app_event.kind = "click"
    /\ ~IsNone(data_manager.marker_lon_lat)

\* C29: when on_click_map sets the marker, the results stored for the
\* previous marker are discarded: num_panels_packed, annual_energy_kwh,
\* daily_energy_kwh and land_area_m2 are all 0 afterwards.
C29_ClickDiscardsResults ==
    [][MarkerPlaced' =>
           /\ data_manager'.num_panels_packed = 0
           /\ data_manager'.annual_energy_kwh = 0
           /\ data_manager'.daily_energy_kwh = 0
           /\ data_manager'.land_area_m2 = Num(0)]_vars

\* The case of C29 as the program runs it: the marker is at B, and the
\* export writes the results of the analysis made at A beside it.
C29_OldResultsAtNewMarker ==
    /\ app_event.kind = "export" /\ ~IsNone(app_event.written)
    /\ data_manager.marker_lon_lat = Some("B")
    /\ nasa_cache["B"] = None /\ nasa_cache["A"] # None
    /\ data_manager.num_panels_packed = 5
    /\ data_manager.annual_energy_kwh > 0

\* C26: each call of fetch_solar_irradiance makes at most one request, and
\* either raises or returns a reading that is at least 0.
C26_ReadingOrRaise ==
    fetch_call.pc = "returned" =>
        /\ fetch_call.requests <= 1
        /\ \/ fetch_call.raised
           \/ (~IsNaN(fetch_call.value) /\ fetch_call.value.v >= 0)

\* The cases of C26 the program does handle: a call that made its one
\* request and raised, and a call that returned the reading 4.52.
C26_RaisedAfterOneRequest ==
    fetch_call.pc = "returned" /\ fetch_call.raised /\ fetch_call.requests = 1
C26_ReturnedReading ==
    /\ fetch_call.pc = "returned" /\ ~fetch_call.raised
    /\ fetch_call.requests = 1 /\ fetch_call.value = Num(452)

\* The coordinates of a call rounded to 4 decimals, and the readings stored.
RoundedTo4(x) == ((x + 5) \div 10) * 10
KeyOfCall(call) == << RoundedTo4(call.lon), RoundedTo4(call.lat) >>
StoredKeys(entries) == {entries[k].key : k \in 1..Len(entries)}
StoredReading(entries, key) ==
    (CHOOSE k \in 1..Len(entries) : entries[k].key = key)
EntriesWithout(entries, key) == SelectSeq(entries, LAMBDA e : e.key # key)
LastEntries(entries, n) ==
    IF Len(entries) <= n THEN entries
    ELSE SubSeq(entries, Len(entries) - n + 1, Len(entries))

\* C27: over any sequence of calls the cache never holds more than
\* lru_maxsize entries; a call whose rounded coordinates are stored returns
\* the stored reading without a request and becomes the most recently used
\* entry; a call whose rounded coordinates are not stored makes one request;
\* if it fails nothing is stored, and if it succeeds its reading is stored
\* beside the lru_maxsize - 1 most recently used entries.
C27_CacheOfRecentReadings ==
    /\ [](Len(lru) <= lru_maxsize)
    /\ [][IF KeyOfCall(fetch_call') \in StoredKeys(lru)
          THEN /\ fetch_call'.requests = 0 /\ ~fetch_call'.raised
               /\ fetch_call'.value
                     = lru[StoredReading(lru, KeyOfCall(fetch_call'))].value
               /\ lru' = Append(EntriesWithout(lru, KeyOfCall(fetch_call')),
                                [key |-> KeyOfCall(fetch_call'),
                                 value |-> fetch_call'.value])
          ELSE /\ fetch_call'.requests = 1
               /\ IF fetch_call'.raised
                  THEN lru' = lru
                  ELSE lru' = Append(LastEntries(lru, lru_maxsize - 1),
                                     [key |-> KeyOfCall(fetch_call'),
                                      value |-> fetch_call'.value])]_vars

\* A full cache answered a call whose coordinates differ from the stored
\* ones before rounding, and the entry it answered from was not the newest.
C27_Witness ==
    /\ fetch_call.pc = "returned" /\ fetch_call.requests = 0
    /\ Len(lru) = lru_maxsize
    /\ lru[Len(lru)].key = KeyOfCall(fetch_call)
    /\ lru[Len(lru)].key # << fetch_call.lon, fetch_call.lat >>
    /\ fetch_call.value = Num(452)
    /\ lru[1].value = NaN

====
